---------------------------- MODULE Spec2Model ----------------------------
(***************************************************************************)
(* The search/filter/sort query compiler of trustify's common crate        *)
(* (common/src/db/query.rs): the column registry, the escape codec, value  *)
(* coercion, Filter::parse, Sort::parse, the lowering into_condition and   *)
(* Filtering::filtering_with.                                              *)
(*                                                                         *)
(* A Rust string is a sequence of characters; a character is a one-symbol  *)
(* TLA+ string.  The two sentinel bytes are written "BEL" (0x07) and "BS"  *)
(* (0x08), the line feed "LF", the backslash "\\".                         *)
(***************************************************************************)
EXTENDS Integers, Sequences, FiniteSets, TLC

VARIABLES
    columns,   \* the Columns registry handed to the compiler
    q,         \* Query.q, the filter string
    sort,      \* Query.sort, the sort string
    pc,        \* position of the caller
    filter,    \* Result<Filter, Error> of Filter::parse
    cond,      \* outcome of lowering: a Condition, or a panic
    sorted,    \* Result<Sort, Error> of Sort::parse
    select,    \* the Select statement: its WHERE conditions and ORDER BY keys
    outcome,   \* what filtering_with gave: Ok(select), Err(error) or a panic
    text,      \* the string the codec works on
    now,       \* the local clock read by the relative-time parser, in days
    runs,      \* the compilations made so far: the clock and the result of each
    RE,        \* the process-wide OnceLock<Regex> of Filter::parse
    calls,     \* the Filter::parse call of each thread
    legacy     \* the search module's compiler: its Result<Filter, Error> and
               \* the Condition it lowers to

vars == <<columns, q, sort, pc, filter, cond, sorted, select, outcome, text,
          now, runs, RE, calls, legacy>>

-----------------------------------------------------------------------------
(* Characters and strings *)

BEL == "BEL"
BS == "BS"
LF == "LF"
BACKSLASH == "\\"

Lower == {"a","b","c","d","e","f","g","h","i","j","k","l","m",
          "n","o","p","q","r","s","t","u","v","w","x","y","z"}
Upper == {"A","B","C","D","E","F","G","H","I","J","K","L","M",
          "N","O","P","Q","R","S","T","U","V","W","X","Y","Z"}
Digit == {"0","1","2","3","4","5","6","7","8","9"}

\* The ASCII class [[:word:]] of the pattern.
WordChar == Lower \cup Upper \cup Digit \cup {"_"}

DigitVal(c) ==
    CASE c = "0" -> 0 [] c = "1" -> 1 [] c = "2" -> 2 [] c = "3" -> 3
      [] c = "4" -> 4 [] c = "5" -> 5 [] c = "6" -> 6 [] c = "7" -> 7
      [] c = "8" -> 8 [] c = "9" -> 9

\* Concatenation of a sequence of strings.
RECURSIVE Flatten(_)
Flatten(ss) == IF ss = <<>> THEN <<>> ELSE Head(ss) \o Flatten(Tail(ss))

\* Concatenation of a sequence of strings with a separator between them.
RECURSIVE Join(_, _)
Join(ss, sep) ==
    IF ss = <<>> THEN <<>>
    ELSE IF Len(ss) = 1 THEN ss[1]
    ELSE ss[1] \o sep \o Join(Tail(ss), sep)

Drop(s, n) == SubSeq(s, n + 1, Len(s))

StartsWith(s, p) == Len(s) >= Len(p) /\ SubSeq(s, 1, Len(p)) = p

\* str::contains(char)
Contains(s, c) == \E i \in 1..Len(s) : s[i] = c

\* str::replace(from, to): every non-overlapping match, left to right.
RECURSIVE Replace(_, _, _)
Replace(s, from, to) ==
    IF Len(s) < Len(from) THEN s
    ELSE IF StartsWith(s, from) THEN to \o Replace(Drop(s, Len(from)), from, to)
    ELSE <<Head(s)>> \o Replace(Tail(s), from, to)

\* A variant that leaves the empty pieces out.
RECURSIVE Split_SkipEmpty(_, _)
Split_SkipEmpty(s, d) ==
    IF ~Contains(s, d) THEN (IF s = <<>> THEN <<>> ELSE <<s>>)
    ELSE LET i == CHOOSE k \in 1..Len(s) :
                      s[k] = d /\ \A j \in 1..(k - 1) : s[j] # d
         IN (IF i = 1 THEN <<>> ELSE <<SubSeq(s, 1, i - 1)>>)
                \o Split_SkipEmpty(Drop(s, i), d)

\* A variant that splits at the first delimiter only.
Split_Once(s, d) ==
    IF ~Contains(s, d) THEN <<s>>
    ELSE LET i == CHOOSE k \in 1..Len(s) :
                      s[k] = d /\ \A j \in 1..(k - 1) : s[j] # d
         IN <<SubSeq(s, 1, i - 1), Drop(s, i)>>

\* str::split(char): the pieces between the delimiters, empty pieces kept.
RECURSIVE Split(_, _)
Split(s, d) ==
    IF ~Contains(s, d) THEN <<s>>
    ELSE LET i == CHOOSE k \in 1..Len(s) :
                      s[k] = d /\ \A j \in 1..(k - 1) : s[j] # d
         IN <<SubSeq(s, 1, i - 1)>> \o Split(Drop(s, i), d)

\* char::to_lowercase on the characters of the model.
LowerOf(c) ==
    CASE c = "A" -> "a" [] c = "B" -> "b" [] c = "C" -> "c" [] c = "D" -> "d"
      [] c = "E" -> "e" [] c = "F" -> "f" [] c = "G" -> "g" [] c = "H" -> "h"
      [] c = "I" -> "i" [] c = "J" -> "j" [] c = "K" -> "k" [] c = "L" -> "l"
      [] c = "M" -> "m" [] c = "N" -> "n" [] c = "O" -> "o" [] c = "P" -> "p"
      [] c = "Q" -> "q" [] c = "R" -> "r" [] c = "S" -> "s" [] c = "T" -> "t"
      [] c = "U" -> "u" [] c = "V" -> "v" [] c = "W" -> "w" [] c = "X" -> "x"
      [] c = "Y" -> "y" [] c = "Z" -> "z" [] OTHER -> c

to_lowercase(s) == [i \in 1..Len(s) |-> LowerOf(s[i])]

-----------------------------------------------------------------------------
(* The escape codec *)

\* A variant that protects the escaped `&` only.
encode_OnlyAmp(s) == Replace(s, <<BACKSLASH, "&">>, <<BEL>>)

encode(s) == Replace(Replace(s, <<BACKSLASH, "&">>, <<BEL>>),
                     <<BACKSLASH, "|">>, <<BS>>)

\* A variant that gives each sentinel the other delimiter.
decode_Swapped(s) == Replace(Replace(s, <<BEL>>, <<"|">>), <<BS>>, <<"&">>)

\* A variant that restores the `&` only.
decode_OnlyAmp(s) == Replace(s, <<BEL>>, <<"&">>)

decode(s) == Replace(Replace(s, <<BEL>>, <<"&">>), <<BS>>, <<"|">>)

-----------------------------------------------------------------------------
(* Results *)

Ok(v) == [ok |-> TRUE, val |-> v]

\* Error::SearchSyntax(format!(msg, arg))
SearchSyntax(msg, arg) == [ok |-> FALSE, err |-> [msg |-> msg, arg |-> arg]]

\* A variant that gives the last Err in iteration order.
Collect_LastErr(rs) ==
    IF \E i \in 1..Len(rs) : ~rs[i].ok
    THEN rs[CHOOSE i \in 1..Len(rs) :
                ~rs[i].ok /\ \A j \in (i + 1)..Len(rs) : rs[j].ok]
    ELSE Ok([i \in 1..Len(rs) |-> rs[i].val])

\* Iterator::collect::<Result<Vec<_>, _>>(): the first Err in iteration order,
\* or the Vec of all the Ok values.
Collect(rs) ==
    IF \E i \in 1..Len(rs) : ~rs[i].ok
    THEN rs[CHOOSE i \in 1..Len(rs) :
                ~rs[i].ok /\ \A j \in 1..(i - 1) : rs[j].ok]
    ELSE Ok([i \in 1..Len(rs) |-> rs[i].val])

-----------------------------------------------------------------------------
(* The Columns registry *)

id == <<"i","d">>
location == <<"l","o","c","a","t","i","o","n">>
title == <<"t","i","t","l","e">>
published == <<"p","u","b","l","i","s","h","e","d">>
len == <<"l","e","n">>
foo == <<"f","o","o">>

TableColumn(t, name) == [kind |-> "TableColumn", table |-> t, name |-> name]
Column(name) == [kind |-> "Column", table |-> "", name |-> name]

\* The entity of the module's tests: table advisory with its four columns
\* in declaration order.
advisory ==
    << [ref |-> TableColumn("advisory", id), type |-> "Integer"],
       [ref |-> TableColumn("advisory", location), type |-> "String"],
       [ref |-> TableColumn("advisory", title), type |-> "String"],
       [ref |-> TableColumn("advisory", published),
        type |-> "TimestampWithTimeZone"] >>

from_entity(entity) == entity

\* A variant that puts the column in the place of an entry of the same name.
add_column_Replace(cols, name, def) ==
    IF \E i \in 1..Len(cols) : cols[i].ref.name = name
    THEN [i \in 1..Len(cols) |->
             IF cols[i].ref.name = name
             THEN [ref |-> Column(name), type |-> def] ELSE cols[i]]
    ELSE Append(cols, [ref |-> Column(name), type |-> def])

add_column(cols, name, def) == Append(cols, [ref |-> Column(name), type |-> def])

\* A variant that returns the last entry of that name.
for_field_LastMatch(cols, field) ==
    IF \E i \in 1..Len(cols) : cols[i].ref.name = field
    THEN [found |-> TRUE,
          col |-> cols[CHOOSE i \in 1..Len(cols) :
                           /\ cols[i].ref.name = field
                           /\ \A j \in (i + 1)..Len(cols) :
                                  cols[j].ref.name # field]]
    ELSE [found |-> FALSE]

\* A variant that compares the names without regard to letter case.
for_field_IgnoreCase(cols, field) ==
    LET same(i) == to_lowercase(cols[i].ref.name) = to_lowercase(field)
    IN  IF \E i \in 1..Len(cols) : same(i)
        THEN [found |-> TRUE,
              col |-> cols[CHOOSE i \in 1..Len(cols) :
                               same(i) /\ \A j \in 1..(i - 1) : ~same(j)]]
        ELSE [found |-> FALSE]

\* Columns::for_field: the first entry whose unqualified name is the field.
for_field(cols, field) ==
    IF \E i \in 1..Len(cols) : cols[i].ref.name = field
    THEN [found |-> TRUE,
          col |-> cols[CHOOSE i \in 1..Len(cols) :
                           /\ cols[i].ref.name = field
                           /\ \A j \in 1..(i - 1) : cols[j].ref.name # field]]
    ELSE [found |-> FALSE]

-----------------------------------------------------------------------------
(* Operators *)

ComparisonOperators ==
    {"Equal", "NotEqual", "Like", "NotLike", "GreaterThan",
     "GreaterThanOrEqual", "LessThan", "LessThanOrEqual"}

\* The alternatives of the pattern's op group, in the pattern's order.
RE_ops ==
    << <<"=">>, <<"!","=">>, <<"~">>, <<"!","~">>,
       <<">","=">>, <<">">>, <<"<","=">>, <<"<">> >>

\* A variant that does not know the `!~` token.
Operator_from_str_NoNotLike(s) ==
    CASE s = <<"=">> -> Ok("Equal")
      [] s = <<"!","=">> -> Ok("NotEqual")
      [] s = <<"~">> -> Ok("Like")
      [] s = <<">">> -> Ok("GreaterThan")
      [] s = <<">","=">> -> Ok("GreaterThanOrEqual")
      [] s = <<"<">> -> Ok("LessThan")
      [] s = <<"<","=">> -> Ok("LessThanOrEqual")
      [] s = <<"|">> -> Ok("Or")
      [] s = <<"&">> -> Ok("And")
      [] OTHER -> SearchSyntax("Invalid operator", s)

Operator_from_str(s) ==
    CASE s = <<"=">> -> Ok("Equal")
      [] s = <<"!","=">> -> Ok("NotEqual")
      [] s = <<"~">> -> Ok("Like")
      [] s = <<"!","~">> -> Ok("NotLike")
      [] s = <<">">> -> Ok("GreaterThan")
      [] s = <<">","=">> -> Ok("GreaterThanOrEqual")
      [] s = <<"<">> -> Ok("LessThan")
      [] s = <<"<","=">> -> Ok("LessThanOrEqual")
      [] s = <<"|">> -> Ok("Or")
      [] s = <<"&">> -> Ok("And")
      [] OTHER -> SearchSyntax("Invalid operator", s)

\* Length of the longest prefix of s made of word characters.
RECURSIVE WordRun(_)
WordRun(s) ==
    IF s # <<>> /\ Head(s) \in WordChar THEN 1 + WordRun(Tail(s)) ELSE 0

\* A variant in which the last alternative of the op group that fits wins.
captures_LastAlternative(s) ==
    LET n == WordRun(s)
        rest == Drop(s, n)
        hits == {k \in 1..Len(RE_ops) : StartsWith(rest, RE_ops[k])}
    IN  IF n = 0 \/ hits = {} THEN [matched |-> FALSE]
        ELSE LET k == CHOOSE k \in hits : \A j \in hits : k >= j
                 value == Drop(rest, Len(RE_ops[k]))
             IN  IF Contains(value, LF) THEN [matched |-> FALSE]
                 ELSE [matched |-> TRUE, field |-> SubSeq(s, 1, n),
                       op |-> RE_ops[k], value |-> value]

\* Regex::captures for ^(?<field>[[:word:]]+)(?<op>...)(?<value>.*)$ with
\* leftmost-first alternation; `.` does not match a line feed and `$` is the
\* end of the text.
captures(s) ==
    LET n == WordRun(s)
        rest == Drop(s, n)
        hits == {k \in 1..Len(RE_ops) : StartsWith(rest, RE_ops[k])}
    IN  IF n = 0 \/ hits = {} THEN [matched |-> FALSE]
        ELSE LET k == CHOOSE k \in hits : \A j \in hits : k <= j
                 value == Drop(rest, Len(RE_ops[k]))
             IN  IF Contains(value, LF) THEN [matched |-> FALSE]
                 ELSE [matched |-> TRUE, field |-> SubSeq(s, 1, n),
                       op |-> RE_ops[k], value |-> value]

-----------------------------------------------------------------------------
(* Value coercion *)

\* sea_orm::Value: the variant, with its text or its number.
Value(t, s, n) == [t |-> t, s |-> s, n |-> n]
StringValue(s) == Value("String", s, 0)

I32_MAX == 2147483647

AllDigits(s) == \A i \in 1..Len(s) : s[i] \in Digit

\* Accumulation of the digits as i32::from_str does it, with checked_mul and
\* checked_add (checked_sub for a negative number): "overflow" as soon as a
\* step leaves the i32 range.
RECURSIVE AccI32(_, _, _)
AccI32(acc, ds, neg) ==
    IF ds = <<>> THEN [ok |-> TRUE, n |-> acc]
    ELSE LET d == DigitVal(Head(ds))
             lim == I32_MAX \div 10
             fits == IF neg
                     THEN acc > -lim \/ (acc = -lim /\ d <= (I32_MAX % 10) + 1)
                     ELSE acc < lim \/ (acc = lim /\ d <= I32_MAX % 10)
         IN  IF ~fits THEN [ok |-> FALSE, n |-> 0]
             ELSE AccI32(IF neg THEN acc * 10 - d ELSE acc * 10 + d,
                         Tail(ds), neg)

\* A variant that clamps a number out of range to the largest i32.
parse_i32_Saturating(s) ==
    LET signed == s # <<>> /\ Head(s) \in {"+", "-"}
        ds == IF signed THEN Tail(s) ELSE s
        r == AccI32(0, ds, signed /\ Head(s) = "-")
    IN  IF ds = <<>> \/ ~AllDigits(ds) THEN [ok |-> FALSE, n |-> 0]
        ELSE IF r.ok THEN r ELSE [ok |-> TRUE, n |-> I32_MAX]

\* str::parse::<i32>()
parse_i32(s) ==
    LET signed == s # <<>> /\ Head(s) \in {"+", "-"}
        ds == IF signed THEN Tail(s) ELSE s
    IN  IF ds = <<>> \/ ~AllDigits(ds) THEN [ok |-> FALSE, n |-> 0]
        ELSE AccI32(0, ds, signed /\ Head(s) = "-")

\* str::parse::<f64>() accepts: [sign] digits [. digits] [e [sign] digits],
\* with a digit on one side of the point at least, or inf, infinity, nan.
IsMantissa(m) ==
    LET ps == Split(m, ".")
    IN  /\ Len(ps) <= 2
        /\ \A i \in 1..Len(ps) : AllDigits(ps[i])
        /\ \E i \in 1..Len(ps) : ps[i] # <<>>

IsExponent(e) ==
    LET ds == IF e # <<>> /\ Head(e) \in {"+", "-"} THEN Tail(e) ELSE e
    IN  ds # <<>> /\ AllDigits(ds)

parse_f64(s) ==
    LET body == to_lowercase(IF s # <<>> /\ Head(s) \in {"+", "-"}
                             THEN Tail(s) ELSE s)
        ps == Split(body, "e")
    IN  \/ body \in {<<"i","n","f">>, <<"n","a","n">>,
                     <<"i","n","f","i","n","i","t","y">>}
        \/ Len(ps) = 1 /\ IsMantissa(ps[1])
        \/ Len(ps) = 2 /\ IsMantissa(ps[1]) /\ IsExponent(ps[2])

Num2(s, i) == DigitVal(s[i]) * 10 + DigitVal(s[i + 1])

DaysInMonth(y, m) ==
    IF m = 2 THEN (IF y % 4 = 0 /\ (y % 100 # 0 \/ y % 400 = 0) THEN 29 ELSE 28)
    ELSE IF m \in {4, 6, 9, 11} THEN 30 ELSE 31

\* Date::parse(s, "[year]-[month]-[day]"): four digits, two, two, a real day.
parse_date(s) ==
    /\ Len(s) = 10
    /\ s[5] = "-" /\ s[8] = "-"
    /\ \A i \in {1, 2, 3, 4, 6, 7, 9, 10} : s[i] \in Digit
    /\ Num2(s, 6) \in 1..12
    /\ Num2(s, 9) \in 1..DaysInMonth(Num2(s, 1) * 100 + Num2(s, 3), Num2(s, 6))

IsHHMM(s, i, sep) ==
    /\ s[i] \in Digit /\ s[i + 1] \in Digit /\ s[i + 2] = sep
    /\ s[i + 3] \in Digit /\ s[i + 4] \in Digit
    /\ Num2(s, i) <= 23 /\ Num2(s, i + 3) <= 59

\* OffsetDateTime::parse(s, &Rfc3339): date T hh:mm:ss [.fraction] offset,
\* the offset Z or a signed hh:mm.
parse_rfc3339(s) ==
    /\ Len(s) >= 20
    /\ parse_date(SubSeq(s, 1, 10))
    /\ s[11] \in {"T", "t"}
    /\ IsHHMM(s, 12, ":") /\ s[17] = ":"
    /\ s[18] \in Digit /\ s[19] \in Digit /\ Num2(s, 18) <= 59
    /\ LET rest == Drop(s, 19)
           frac == IF Head(rest) = "."
                   THEN CHOOSE k \in 1..Len(rest) :
                            /\ \A j \in 2..k : rest[j] \in Digit
                            /\ (k = Len(rest) \/ rest[k + 1] \notin Digit)
                   ELSE 0
           off == Drop(rest, frac)
       IN  /\ frac # 1
           /\ \/ off \in {<<"Z">>, <<"z">>}
              \/ Len(off) = 6 /\ off[1] \in {"+", "-"} /\ IsHHMM(off, 2, ":")

yesterday == <<"y","e","s","t","e","r","d","a","y">>
three_days_ago == <<"3"," ","d","a","y","s"," ","a","g","o">>

\* A variant that reads every value as a date relative to the clock.
from_human_time_AnyPhrase(s, clock) == Ok(Value("ChronoDate", <<>>, clock))

\* human_date_parser::from_human_time: the phrase is lower-cased and read
\* against the local clock; the phrases of the module's tests.
\* An absolute date and time of day, as in 2022-11-07 13:25:30.
IsDateTime(s) ==
    /\ Len(s) = 19
    /\ parse_date(SubSeq(s, 1, 10))
    /\ s[11] = " "
    /\ IsHHMM(s, 12, ":") /\ s[17] = ":"
    /\ s[18] \in Digit /\ s[19] \in Digit /\ Num2(s, 18) <= 59

from_human_time(s, clock) ==
    LET l == to_lowercase(s)
    IN  CASE l = yesterday -> Ok(Value("ChronoDate", <<>>, clock - 1))
          [] l = three_days_ago -> Ok(Value("ChronoDateTime", <<>>, clock - 3))
          [] l = <<"n","o","w">> -> Ok(Value("ChronoDateTime", <<>>, clock))
          [] parse_date(l) -> Ok(Value("ChronoDate", l, 0))
          [] IsDateTime(l) -> Ok(Value("ChronoDateTime", l, 0))
          [] OTHER -> [ok |-> FALSE]

\* A variant that picks the value by the shape of the text, not by the type.
envalue_ByShape(s, ct, clock) ==
    IF parse_i32(s).ok THEN Ok(Value("Int", <<>>, parse_i32(s).n))
    ELSE IF ct \in {"Integer", "Decimal"} THEN SearchSyntax("conversion error", s)
    ELSE Ok(StringValue(s))

\* A variant that asks the human-time parser before the two strict ones.
envalue_HumanFirst(s, ct, clock) ==
    CASE ct = "Integer" ->
            IF parse_i32(s).ok THEN Ok(Value("Int", <<>>, parse_i32(s).n))
            ELSE SearchSyntax("conversion error", s)
      [] ct = "Decimal" ->
            IF parse_f64(s) THEN Ok(Value("Double", s, 0))
            ELSE SearchSyntax("conversion error", s)
      [] ct = "TimestampWithTimeZone" ->
            IF from_human_time(s, clock).ok THEN from_human_time(s, clock)
            ELSE IF parse_rfc3339(s)
            THEN Ok(Value("TimeDateTimeWithTimeZone", s, 0))
            ELSE IF parse_date(s) THEN Ok(Value("TimeDate", s, 0))
            ELSE Ok(StringValue(s))
      [] OTHER -> Ok(StringValue(s))

\* envalue(s, ct): the value of a leaf, by the declared type of its column.
envalue(s, ct, clock) ==
    CASE ct = "Integer" ->
            IF parse_i32(s).ok THEN Ok(Value("Int", <<>>, parse_i32(s).n))
            ELSE SearchSyntax("conversion error", s)
      [] ct = "Decimal" ->
            IF parse_f64(s) THEN Ok(Value("Double", s, 0))
            ELSE SearchSyntax("conversion error", s)
      [] ct = "TimestampWithTimeZone" ->
            IF parse_rfc3339(s) THEN Ok(Value("TimeDateTimeWithTimeZone", s, 0))
            ELSE IF parse_date(s) THEN Ok(Value("TimeDate", s, 0))
            ELSE IF from_human_time(s, clock).ok THEN from_human_time(s, clock)
            ELSE Ok(StringValue(s))
      [] OTHER -> Ok(StringValue(s))

-----------------------------------------------------------------------------
(* Filter::parse *)

Simple(col, v) == [kind |-> "Simple", col |-> col, value |-> v]
Composite(fs) == [kind |-> "Composite", filters |-> fs]
Filter(operator, operands) == [operator |-> operator, operands |-> operands]

\* A variant that joins the alternatives with Or whatever the operator.
JoinOperator_AlwaysOr(operator) == "Or"

\* A variant that gives the group the operator of its leaves.
JoinOperator_OfLeaves(operator) == operator

\* The operator that joins the alternatives of a field comparison.
JoinOperator(operator) ==
    IF operator \in {"NotLike", "NotEqual"} THEN "And" ELSE "Or"

\* A variant that builds a leaf for every column, whatever its type.
TextLeaves_AllColumns(encoded, cols) ==
    LET alts == Split(encoded, "|")
    IN  Flatten([a \in 1..Len(alts) |->
                    [c \in 1..Len(cols) |->
                        Filter("Like",
                               Simple(cols[c].ref,
                                      StringValue(decode(alts[a]))))]])

\* The leaves of a full-text query: for each alternative, one Like leaf for
\* each String or Text column, in registry order.
TextLeaves(encoded, cols) ==
    LET alts == Split(encoded, "|")
        textual == SelectSeq(cols, LAMBDA c : c.type \in {"String", "Text"})
    IN  Flatten([a \in 1..Len(alts) |->
                    [c \in 1..Len(textual) |->
                        Filter("Like",
                               Simple(textual[c].ref,
                                      StringValue(decode(alts[a]))))]])

\* A variant that searches the text for a clause whose field is unknown.
FieldFilter_Fallback(caps, cols, clock) ==
    LET col == for_field(cols, caps.field)
        operator == Operator_from_str(caps.op)
        alts == Split(caps.value, "|")
        values == Collect([a \in 1..Len(alts) |->
                              envalue(decode(alts[a]), col.col.type, clock)])
    IN  IF ~col.found
        THEN Ok(Filter("Or", Composite(
                 TextLeaves(caps.field \o caps.op \o caps.value, cols))))
        ELSE IF ~operator.ok THEN operator
        ELSE IF ~values.ok THEN values
        ELSE Ok(Filter(JoinOperator(operator.val),
                       Composite([a \in 1..Len(alts) |->
                                     Filter(operator.val,
                                            Simple(col.col.ref,
                                                   values.val[a]))])))

\* The field comparison branch, for the captures of the pattern.
FieldFilter(caps, cols, clock) ==
    LET col == for_field(cols, caps.field)
        operator == Operator_from_str(caps.op)
        alts == Split(caps.value, "|")
        values == Collect([a \in 1..Len(alts) |->
                              envalue(decode(alts[a]), col.col.type, clock)])
    IN  IF ~col.found
        THEN SearchSyntax("Invalid field name for filter", caps.field)
        ELSE IF ~operator.ok THEN operator
        ELSE IF ~values.ok THEN values
        ELSE Ok(Filter(JoinOperator(operator.val),
                       Composite([a \in 1..Len(alts) |->
                                     Filter(operator.val,
                                            Simple(col.col.ref,
                                                   values.val[a]))])))

RECURSIVE Filter_parse(_, _, _)

\* A variant that tries the field comparison before the conjunction.
Filter_parse_FieldFirst(s, cols, clock) ==
    LET encoded == encode(s)
    IN  IF captures(encoded).matched
        THEN FieldFilter(captures(encoded), cols, clock)
        ELSE IF Contains(encoded, "&")
        THEN LET pieces == Split(encoded, "&")
                 parsed == Collect([i \in 1..Len(pieces) |->
                                       Filter_parse(pieces[i], cols, clock)])
             IN  IF parsed.ok THEN Ok(Filter("And", Composite(parsed.val)))
                 ELSE parsed
        ELSE Ok(Filter("Or", Composite(TextLeaves(encoded, cols))))

Filter_parse(s, cols, clock) ==
    LET encoded == encode(s)
    IN  IF Contains(encoded, "&")
        THEN LET pieces == Split(encoded, "&")
                 parsed == Collect([i \in 1..Len(pieces) |->
                                       Filter_parse(pieces[i], cols, clock)])
             IN  IF parsed.ok THEN Ok(Filter("And", Composite(parsed.val)))
                 ELSE parsed
        ELSE IF captures(encoded).matched
        THEN FieldFilter(captures(encoded), cols, clock)
        ELSE Ok(Filter("Or", Composite(TextLeaves(encoded, cols))))

-----------------------------------------------------------------------------
(* Sort::parse *)

asc == <<"a","s","c">>
desc == <<"d","e","s","c">>

\* A variant that takes any second part for a direction.
Sort_parse_AnyDirection(s, cols) ==
    LET l == to_lowercase(s)
        parts == Split(l, ":")
        order == IF Len(parts) = 2 /\ parts[2] = desc THEN "Desc" ELSE "Asc"
        col == for_field(cols, parts[1])
    IN  IF Len(parts) > 2 THEN SearchSyntax("Invalid sort", l)
        ELSE IF ~col.found
        THEN SearchSyntax("Invalid field name for sort", parts[1])
        ELSE Ok([field |-> col.col.ref, order |-> order])

\* A variant that looks the field up as it is written.
Sort_parse_AsWritten(s, cols) ==
    LET parts == Split(s, ":")
        shape == \/ Len(parts) = 1
                 \/ Len(parts) = 2 /\ to_lowercase(parts[2]) \in {asc, desc}
        order == IF Len(parts) = 2 /\ to_lowercase(parts[2]) = desc
                 THEN "Desc" ELSE "Asc"
        col == for_field(cols, parts[1])
    IN  IF ~shape THEN SearchSyntax("Invalid sort", to_lowercase(s))
        ELSE IF ~col.found
        THEN SearchSyntax("Invalid field name for sort", to_lowercase(parts[1]))
        ELSE Ok([field |-> col.col.ref, order |-> order])

Sort_parse(s, cols) ==
    LET l == to_lowercase(s)
        parts == Split(l, ":")
        shape == \/ Len(parts) = 1
                 \/ Len(parts) = 2 /\ parts[2] \in {asc, desc}
        order == IF Len(parts) = 2 /\ parts[2] = desc THEN "Desc" ELSE "Asc"
        col == for_field(cols, parts[1])
    IN  IF ~shape THEN SearchSyntax("Invalid sort", l)
        ELSE IF ~col.found
        THEN SearchSyntax("Invalid field name for sort", parts[1])
        ELSE Ok([field |-> col.col.ref, order |-> order])

-----------------------------------------------------------------------------
(* Lowering: IntoCondition for Filter *)

Lowered(c) == [panic |-> FALSE, cond |-> c]
Panic(why) == [panic |-> TRUE, why |-> why]

Condition(type, conditions) == [type |-> type, conditions |-> conditions]

BinOper(operator) ==
    CASE operator = "LessThan" -> "SmallerThan"
      [] operator = "LessThanOrEqual" -> "SmallerThanOrEqual"
      [] OTHER -> operator

\* The pattern of a Like or NotLike leaf.
LikePattern(s) ==
    <<"%">> \o Replace(Replace(s, <<"%">>, <<BACKSLASH, "%">>),
                       <<"_">>, <<BACKSLASH, "_">>) \o <<"%">>

\* A Simple leaf; Value::unwrap::<String>() panics on any other variant.
SimpleCondition(operator, col, v) ==
    IF operator \in {"Equal", "NotEqual", "GreaterThan", "GreaterThanOrEqual",
                     "LessThan", "LessThanOrEqual"}
    THEN Lowered(Condition("All",
             <<[expr |-> "Binary", col |-> col, op |-> BinOper(operator),
                value |-> v]>>))
    ELSE IF operator \in {"Like", "NotLike"}
    THEN IF v.t # "String" THEN Panic("unwrap")
         ELSE Lowered(Condition("All",
                  <<[expr |-> IF operator = "Like" THEN "ILike" ELSE "NotILike",
                     col |-> col, op |-> "",
                     value |-> StringValue(LikePattern(v.s))]>>))
    ELSE Panic("unreachable")

RECURSIVE into_condition(_)

\* A variant that starts the fold of a group without children from all().
into_condition_EmptyAsAll(f) ==
    IF f.operands.kind = "Simple"
    THEN SimpleCondition(f.operator, f.operands.col, f.operands.value)
    ELSE LET fs == f.operands.filters
             cs == [i \in 1..Len(fs) |-> into_condition(fs[i])]
         IN  IF f.operator \notin {"And", "Or"} THEN Panic("unreachable")
             ELSE IF \E i \in 1..Len(cs) : cs[i].panic
             THEN cs[CHOOSE i \in 1..Len(cs) :
                         cs[i].panic /\ \A j \in 1..(i - 1) : ~cs[j].panic]
             ELSE Lowered(Condition(IF f.operator = "And" \/ fs = <<>>
                                    THEN "All" ELSE "Any",
                                    [i \in 1..Len(cs) |-> cs[i].cond]))

into_condition(f) ==
    IF f.operands.kind = "Simple"
    THEN SimpleCondition(f.operator, f.operands.col, f.operands.value)
    ELSE LET fs == f.operands.filters
             cs == [i \in 1..Len(fs) |-> into_condition(fs[i])]
         IN  IF f.operator \notin {"And", "Or"} THEN Panic("unreachable")
             ELSE IF \E i \in 1..Len(cs) : cs[i].panic
             THEN cs[CHOOSE i \in 1..Len(cs) :
                         cs[i].panic /\ \A j \in 1..(i - 1) : ~cs[j].panic]
             ELSE Lowered(Condition(IF f.operator = "And" THEN "All" ELSE "Any",
                                    [i \in 1..Len(cs) |-> cs[i].cond]))

-----------------------------------------------------------------------------
(* Filtering::filtering_with *)

EmptySelect == [where |-> <<>>, order_by |-> <<>>]

\* QueryFilter::filter and QueryOrder::order_by on the Select.
select_filter(sel, c) == [sel EXCEPT !.where = Append(@, c)]
order_by(sel, col, order) ==
    [sel EXCEPT !.order_by = Append(@, [field |-> col, order |-> order])]

\* A variant that applies the keys from the last one to the first.
RECURSIVE FoldOrder_Reversed(_, _)
FoldOrder_Reversed(sel, sorts) ==
    IF sorts = <<>> THEN sel
    ELSE order_by(FoldOrder_Reversed(sel, Tail(sorts)),
                  Head(sorts).field, Head(sorts).order)

RECURSIVE FoldOrder(_, _)
FoldOrder(sel, sorts) ==
    IF sorts = <<>> THEN sel
    ELSE FoldOrder(order_by(sel, Head(sorts).field, Head(sorts).order),
                   Tail(sorts))

\* A variant that compiles the filter string and splits the sort string even
\* when they are empty.
filtering_with_NoEmptyCheck(sel, query, sortstr, cols, clock) ==
    LET parsed == Filter_parse(query, cols, clock)
        lowered == into_condition(parsed.val)
        tokens == Split(sortstr, ",")
        sorts == Collect([i \in 1..Len(tokens) |-> Sort_parse(tokens[i], cols)])
    IN  IF ~parsed.ok THEN [outcome |-> "err", err |-> parsed.err]
        ELSE IF lowered.panic THEN [outcome |-> "panic", why |-> lowered.why]
        ELSE IF ~sorts.ok THEN [outcome |-> "err", err |-> sorts.err]
        ELSE [outcome |-> "ok",
              select |-> FoldOrder(select_filter(sel, lowered.cond), sorts.val)]

\* The outcome: Ok(select), Err(error), or a panic out of the lowering.
filtering_with(sel, query, sortstr, cols, clock) ==
    LET parsed == Filter_parse(query, cols, clock)
        lowered == into_condition(parsed.val)
        filtered == IF query = <<>> THEN sel
                    ELSE select_filter(sel, lowered.cond)
        tokens == Split(sortstr, ",")
        sorts == Collect([i \in 1..Len(tokens) |-> Sort_parse(tokens[i], cols)])
    IN  IF query # <<>> /\ ~parsed.ok
        THEN [outcome |-> "err", err |-> parsed.err]
        ELSE IF query # <<>> /\ lowered.panic
        THEN [outcome |-> "panic", why |-> lowered.why]
        ELSE IF sortstr = <<>> THEN [outcome |-> "ok", select |-> filtered]
        ELSE IF ~sorts.ok THEN [outcome |-> "err", err |-> sorts.err]
        ELSE [outcome |-> "ok", select |-> FoldOrder(filtered, sorts.val)]

-----------------------------------------------------------------------------
(* Inputs *)

MaxLen == 3
MaxAlts == 3
MaxClauses == 3

score == <<"s","c","o","r","e">>

\* All sequences of 0..n elements of S.
SeqUpTo(S, n) == UNION {[1..k -> S] : k \in 0..n}

Range(f) == {f[i] : i \in DOMAIN f}

\* The registries: the test entity, the test entity with the computed columns
\* added to it, and a registry without any textual column.
Registries ==
    { from_entity(advisory),
      add_column(add_column(from_entity(advisory), len, "Integer"),
                 score, "Decimal"),
      add_column(add_column(<<>>, len, "Integer"), score, "Decimal") }

\* Every string of up to MaxLen of these pieces: the delimiters, the escape
\* character, the operator characters, the two sentinels, the line feed, a
\* field name, a letter and a digit.
Tokens ==
    { location, <<"a">>, <<"1">>, <<"=">>, <<"!">>, <<"~">>, <<">">>, <<"<">>,
      <<"&">>, <<"|">>, <<BACKSLASH>>, <<BEL>>, <<BS>>, <<LF>> }

TokenStrings == {Flatten(ts) : ts \in SeqUpTo(Tokens, MaxLen)}

\* Field comparisons: a name, each operator token, 1..MaxAlts alternatives.
FieldNames == {id, location, published, len, score, foo}

Atoms ==
    { foo, <<"4","2">>, <<"2","0","2","3","-","1","1","-","0","3">>,
      <<BACKSLASH, "&", BACKSLASH, "|">> }

ValueLists == SeqUpTo(Atoms, MaxAlts) \ {<<>>}

FieldQueries ==
    {f \o op \o Join(vs, <<"|">>) :
        f \in FieldNames, op \in Range(RE_ops), vs \in ValueLists}

\* Single values of the other shapes the coercion tells apart.
SpecialValues ==
    { <<>>, <<"f","_","o","%","o">>, <<"1",".","5">>, <<"-","7">>, yesterday,
      three_days_ago, <<"2","0","2","3","-","0","2","-","3","0">>,
      <<"2","0","2","3","-","1","1","-","0","3","T","2","3",":","2","0",":",
        "5","0",".","5","2","Z">>,
      <<"2","0","2","3","-","1","1","-","0","3","T","2","3",":","2","0",":",
        "5","1","-","0","4",":","0","0">> }

ValueQueries ==
    {f \o op \o v : f \in FieldNames, op \in Range(RE_ops), v \in SpecialValues}

\* Conjunctions of up to MaxClauses clauses.
SampleClauses ==
    { <<>>, foo, <<"a","|","b">>,
      location \o <<"=">> \o <<"b","a","r">>,
      location \o <<"!","~">> \o <<"t","h","e","r","e","|","h","e","r","e">>,
      <<"m",BACKSLASH,"&","m">>,
      location \o <<"=","f",BACKSLASH,"&","o","o">>,
      id \o <<"=","1","3">>,
      id \o <<"=","x">>,
      foo \o <<"=","b","a","r">> }

ConjQueries ==
    {Join(cs, <<"&">>) : cs \in SeqUpTo(SampleClauses, MaxClauses)}

Queries == TokenStrings \cup FieldQueries \cup ValueQueries \cup ConjQueries

Today == 19664

\* The OnceLock before its first use, and no call in any thread.
Unset == [state |-> "Incomplete", value |-> <<>>, inits |-> 0, writes |-> 0]
NoCalls == <<>>

NoResult == [ok |-> FALSE, err |-> [msg |-> "", arg |-> <<>>]]
NoCondition == [panic |-> FALSE, cond |-> Condition("All", <<>>)]
NoOutcome == [outcome |-> "none"]

\* The search module's compiler before it is called.
NoLegacy == [pc |-> "start", filter |-> NoResult, cond |-> NoCondition]

-----------------------------------------------------------------------------
(* The compiler's pipeline: parse the filter, then lower the tree *)

Init ==
    /\ columns \in Registries
    /\ q \in Queries
    /\ sort = <<>>
    /\ pc = "start"
    /\ filter = NoResult
    /\ cond = NoCondition
    /\ sorted = NoResult
    /\ select = EmptySelect
    /\ outcome = NoOutcome
    /\ text = <<>>
    /\ now = Today
    /\ runs = <<>>
    /\ RE = Unset
    /\ calls = NoCalls
    /\ legacy = NoLegacy

\* Filter::parse(q, &columns)
Parse ==
    /\ pc = "start"
    /\ filter' = Filter_parse(q, columns, now)
    /\ pc' = "parsed"
    /\ UNCHANGED <<columns, q, sort, cond, sorted, select, outcome, text, now,
                   runs, RE, calls, legacy>>

\* filter.into_condition() on a parsed tree
IntoCondition ==
    /\ pc = "parsed"
    /\ filter.ok
    /\ cond' = into_condition(filter.val)
    /\ pc' = "lowered"
    /\ UNCHANGED <<columns, q, sort, filter, sorted, select, outcome, text,
                   now, runs, RE, calls, legacy>>

Next == Parse \/ IntoCondition

Spec == Init /\ [][Next]_vars

-----------------------------------------------------------------------------
(* The grammar read off the raw input, without the codec: a delimiter is     *)
(* escaped when a backslash stands directly before it.                       *)

Unescaped(s, i, d) == s[i] = d /\ (i = 1 \/ s[i - 1] # BACKSLASH)

HasUnescaped(s, d) == \E i \in 1..Len(s) : Unescaped(s, i, d)

RECURSIVE SplitUnescaped(_, _)
SplitUnescaped(s, d) ==
    IF ~HasUnescaped(s, d) THEN <<s>>
    ELSE LET i == CHOOSE k \in 1..Len(s) :
                      /\ Unescaped(s, k, d)
                      /\ \A j \in 1..(k - 1) : ~Unescaped(s, j, d)
         IN  <<SubSeq(s, 1, i - 1)>> \o SplitUnescaped(Drop(s, i), d)

\* s with the backslash of every escaped delimiter removed.
RECURSIVE Unescape(_)
Unescape(s) ==
    IF Len(s) < 2 THEN s
    ELSE IF s[1] = BACKSLASH /\ s[2] \in {"&", "|"}
    THEN <<s[2]>> \o Unescape(Drop(s, 2))
    ELSE <<s[1]>> \o Unescape(Tail(s))

SentinelFree(s) == \A i \in 1..Len(s) : s[i] \notin {BEL, BS}

Parsed == pc \in {"parsed", "lowered"}

\* The input is one field comparison on a registered field.
FieldComparison ==
    /\ ~HasUnescaped(q, "&")
    /\ captures(q).matched
    /\ for_field(columns, captures(q).field).found

TextColumns == SelectSeq(columns, LAMBDA c : c.type \in {"String", "Text"})

IsGroupOfLeaves(f) ==
    /\ f.operands.kind = "Composite"
    /\ \A i \in 1..Len(f.operands.filters) :
           f.operands.filters[i].operands.kind = "Simple"

-----------------------------------------------------------------------------
(* C1 *)

\* What a field comparison is expected to give, read off the raw input:
\* the column, the operator, the raw alternatives and their coerced values.
Expected ==
    LET caps == captures(q)
        col == for_field(columns, caps.field).col
        alts == SplitUnescaped(caps.value, "|")
    IN  [ col |-> col,
          op |-> Operator_from_str(caps.op).val,
          alts |-> alts,
          vals |-> [i \in 1..Len(alts) |->
                       envalue(decode(encode(alts[i])), col.type, now)] ]

\* The tree is the group of the expected leaves, in input order, joined by
\* And for NotEqual and NotLike and by Or for the other operators.
IsExpectedGroup(f, e) ==
    /\ f.operator = (IF e.op \in {"NotEqual", "NotLike"} THEN "And" ELSE "Or")
    /\ f.operands.kind = "Composite"
    /\ Len(f.operands.filters) = Len(e.alts)
    /\ \A i \in 1..Len(e.alts) :
           LET leaf == f.operands.filters[i]
           IN  /\ leaf.operator = e.op
               /\ leaf.operands.kind = "Simple"
               /\ leaf.operands.col = e.col.ref
               /\ e.vals[i].ok => leaf.operands.value = e.vals[i].val

\* C1 as stated: for every field comparison on a registered field with the
\* alternatives v1|...|vn, Filter::parse returns a Composite of exactly n
\* Simple leaves, in input order, each on that field with the parsed operator,
\* joined by And for NotEqual and NotLike and by Or otherwise.
C1_Original ==
    (Parsed /\ FieldComparison) =>
        (filter.ok /\ IsExpectedGroup(filter.val, Expected))

\* C1 as amended: the same when every alternative coerces to the type of the
\* column; when one does not, Filter::parse returns the conversion error of
\* the leftmost such alternative and no tree.
C1_FieldComparison ==
    (Parsed /\ FieldComparison) =>
        LET e == Expected
            bad == {i \in 1..Len(e.alts) : ~e.vals[i].ok}
        IN  IF bad = {}
            THEN filter.ok /\ IsExpectedGroup(filter.val, e)
            ELSE /\ ~filter.ok
                 /\ filter.err.msg = "conversion error"
                 /\ \E i \in bad : /\ \A j \in bad : i <= j
                                   /\ filter.err = e.vals[i].err

\* Three NotEqual alternatives joined by And, and three Equal ones by Or.
C1_Witness ==
    /\ Parsed /\ FieldComparison /\ filter.ok
    /\ Len(Expected.alts) = 3
    /\ Expected.op = "NotEqual"
    /\ filter.val.operator = "And"
    /\ Len(filter.val.operands.filters) = 3

-----------------------------------------------------------------------------
(* C2 *)

\* The parses of the pieces between the unescaped `&` of the raw input.
PieceParses ==
    LET pieces == SplitUnescaped(q, "&")
    IN  [i \in 1..Len(pieces) |-> Filter_parse(pieces[i], columns, now)]

\* C2 as stated: whenever the input holds an unescaped `&`, Filter::parse
\* returns an And Composite whose children are, in order, the parses of the
\* pieces, none of them an And of pieces itself.
C2_Original ==
    (Parsed /\ HasUnescaped(q, "&")) =>
        /\ filter.ok
        /\ filter.val.operator = "And"
        /\ filter.val.operands.kind = "Composite"
        /\ Len(filter.val.operands.filters) = Len(PieceParses)
        /\ \A i \in 1..Len(PieceParses) :
               /\ PieceParses[i].ok
               /\ filter.val.operands.filters[i] = PieceParses[i].val
               /\ IsGroupOfLeaves(PieceParses[i].val)

\* C2 as amended: that holds when every piece parses; when one does not,
\* Filter::parse returns the error of the leftmost failing piece.  Either way
\* the conjunction is decided first, so `|` binds tighter than `&`.
C2_Conjunction ==
    (Parsed /\ HasUnescaped(q, "&")) =>
        LET rs == PieceParses
            bad == {i \in 1..Len(rs) : ~rs[i].ok}
        IN  IF bad = {}
            THEN /\ filter.ok
                 /\ filter.val.operator = "And"
                 /\ filter.val.operands.kind = "Composite"
                 /\ Len(filter.val.operands.filters) = Len(rs)
                 /\ \A i \in 1..Len(rs) :
                        /\ filter.val.operands.filters[i] = rs[i].val
                        /\ IsGroupOfLeaves(rs[i].val)
            ELSE /\ ~filter.ok
                 /\ \E i \in bad : /\ \A j \in bad : i <= j
                                   /\ filter.err = rs[i].err

\* A full-text Or group, a NotLike And group and a typed comparison as the
\* three children of one And.
C2_Witness ==
    /\ Parsed /\ filter.ok /\ HasUnescaped(q, "&")
    /\ SplitUnescaped(q, "&")[1] = foo
    /\ filter.val.operator = "And"
    /\ Len(filter.val.operands.filters) = 3
    /\ LET fs == filter.val.operands.filters
       IN  /\ fs[1].operator = "Or"
           /\ Len(fs[1].operands.filters) = 2
           /\ fs[1].operands.filters[1].operator = "Like"
           /\ fs[2].operator = "And"
           /\ Len(fs[2].operands.filters) = 2
           /\ fs[2].operands.filters[1].operator = "NotLike"
           /\ fs[3].operands.filters[1].operands.value.t = "Int"

-----------------------------------------------------------------------------
(* C3 *)

\* C3: an input without unescaped `&` that does not match the pattern gives
\* an Or Composite of (alternatives) x (String or Text columns) Like leaves,
\* alternative-major and in registry order within an alternative, and so no
\* leaf on a column of another type.
C3_FullText ==
    (Parsed /\ ~HasUnescaped(q, "&") /\ ~captures(q).matched) =>
        LET alts == SplitUnescaped(q, "|")
            n == Len(TextColumns)
        IN  /\ filter.ok
            /\ filter.val.operator = "Or"
            /\ filter.val.operands.kind = "Composite"
            /\ Len(filter.val.operands.filters) = Len(alts) * n
            /\ \A a \in 1..Len(alts) : \A c \in 1..n :
                   filter.val.operands.filters[(a - 1) * n + c] =
                       Filter("Like",
                              Simple(TextColumns[c].ref,
                                     StringValue(decode(encode(alts[a])))))
            /\ \A i \in 1..Len(filter.val.operands.filters) :
                   \E c \in 1..Len(columns) :
                       /\ columns[c].ref =
                              filter.val.operands.filters[i].operands.col
                       /\ columns[c].type \in {"String", "Text"}

\* Two different alternatives against the two textual columns of a registry
\* that also holds columns of other types: four leaves.
C3_Witness ==
    /\ Parsed /\ ~HasUnescaped(q, "&") /\ ~captures(q).matched
    /\ Len(SplitUnescaped(q, "|")) = 2
    /\ SplitUnescaped(q, "|")[1] # SplitUnescaped(q, "|")[2]
    /\ Len(TextColumns) = 2 /\ Len(columns) > 2
    /\ Len(filter.val.operands.filters) = 4

-----------------------------------------------------------------------------
(* C4 *)

\* The raw clause has the field-op-value shape and names no registry column.
UnknownFieldClause(clause) ==
    /\ captures(clause).matched
    /\ ~for_field(columns, captures(clause).field).found

\* C4: a clause of the field-op-value shape whose field is not in the
\* registry makes Filter::parse fail with a SearchSyntax error, whatever the
\* operator and the registry; a lone such clause fails with the error naming
\* the field.  It is never compiled as a full-text query.
C4_UnknownField ==
    Parsed =>
        LET clauses == SplitUnescaped(q, "&")
        IN  /\ (\E i \in 1..Len(clauses) : UnknownFieldClause(clauses[i]))
                   => ~filter.ok
            /\ (Len(clauses) = 1 /\ UnknownFieldClause(q))
                   => /\ ~filter.ok
                      /\ filter.err = [msg |-> "Invalid field name for filter",
                                       arg |-> captures(q).field]

\* foo=bar against the test entity, which has textual columns to fall back on.
C4_Witness ==
    /\ Parsed /\ UnknownFieldClause(q) /\ ~HasUnescaped(q, "&")
    /\ captures(q).field = foo
    /\ Len(TextColumns) = 2
    /\ ~filter.ok /\ filter.err.msg = "Invalid field name for filter"

-----------------------------------------------------------------------------
(* C5 *)

\* The strings the leaves of one raw clause are expected to carry: the
\* unescaped alternatives of the value, or of the whole clause once for each
\* textual column.
RawTexts(clause) ==
    IF captures(clause).matched
    THEN LET alts == SplitUnescaped(captures(clause).value, "|")
         IN  [i \in 1..Len(alts) |-> Unescape(alts[i])]
    ELSE LET alts == SplitUnescaped(clause, "|")
         IN  Flatten([a \in 1..Len(alts) |->
                         [c \in 1..Len(TextColumns) |-> Unescape(alts[a])]])

\* The group f has one leaf for each expected string, and each leaf that
\* carries a string carries the expected one.
CarriesRawTexts(f, clause) ==
    LET texts == RawTexts(clause)
    IN  /\ f.operands.kind = "Composite"
        /\ Len(f.operands.filters) = Len(texts)
        /\ \A i \in 1..Len(texts) :
               LET v == f.operands.filters[i].operands.value
               IN  v.t = "String" => v.s = texts[i]

\* C5: in a tree Filter::parse returns, the And-children are the pieces
\* between the unescaped `&` and the leaves of a clause the pieces between its
\* unescaped `|`: an escaped delimiter is no split point, and the leaf holds
\* it as the bare `&` or `|` (inputs free of the sentinel characters).
C5_EscapedDelimiters ==
    (Parsed /\ filter.ok) =>
        LET clauses == SplitUnescaped(q, "&")
        IN  /\ Len(clauses) > 1 =>
                   /\ filter.val.operator = "And"
                   /\ Len(filter.val.operands.filters) = Len(clauses)
            /\ Len(clauses) = 1 => IsGroupOfLeaves(filter.val)
            /\ SentinelFree(q) =>
                   IF Len(clauses) = 1 THEN CarriesRawTexts(filter.val, q)
                   ELSE \A i \in 1..Len(clauses) :
                            CarriesRawTexts(filter.val.operands.filters[i],
                                            clauses[i])

\* location=foo|\&\| : two leaves, the second one holding `&|`.
C5_Witness ==
    /\ Parsed /\ filter.ok /\ SentinelFree(q)
    /\ FieldComparison
    /\ captures(q).field = location
    /\ captures(q).value = foo \o <<"|", BACKSLASH, "&", BACKSLASH, "|">>
    /\ Len(filter.val.operands.filters) = 2
    /\ filter.val.operands.filters[1].operands.value.s = foo
    /\ filter.val.operands.filters[2].operands.value.s = <<"&", "|">>

-----------------------------------------------------------------------------
(* C10 *)

\* C10 as stated: lowering a tree that Filter::parse returned completes with
\* a predicate; it never panics.
C10_LoweringNeverPanics == pc = "lowered" => ~cond.panic

-----------------------------------------------------------------------------
(* The codec alone: encode a string, then decode it *)

MaxCodecLen == 5

CodecChars == {BACKSLASH, "&", "|", "a", BEL, BS}

CodecStrings == SeqUpTo(CodecChars, MaxCodecLen)

InitCodec ==
    /\ columns = from_entity(advisory)
    /\ q \in CodecStrings
    /\ text = q
    /\ sort = <<>>
    /\ pc = "start"
    /\ filter = NoResult
    /\ cond = NoCondition
    /\ sorted = NoResult
    /\ select = EmptySelect
    /\ outcome = NoOutcome
    /\ now = Today
    /\ runs = <<>>
    /\ RE = Unset
    /\ calls = NoCalls
    /\ legacy = NoLegacy

Encode ==
    /\ pc = "start"
    /\ text' = encode(text)
    /\ pc' = "encoded"
    /\ UNCHANGED <<columns, q, sort, filter, cond, sorted, select, outcome, now,
                   runs, RE, calls, legacy>>

Decode ==
    /\ pc = "encoded"
    /\ text' = decode(text)
    /\ pc' = "decoded"
    /\ UNCHANGED <<columns, q, sort, filter, cond, sorted, select, outcome, now,
                   runs, RE, calls, legacy>>

NextCodec == Encode \/ Decode

SpecCodec == InitCodec /\ [][NextCodec]_vars

HasEscape(s) ==
    \E i \in 2..Len(s) : s[i - 1] = BACKSLASH /\ s[i] \in {"&", "|"}

\* C6 as stated: decode(encode(s)) = s for every s that holds `\&` or `\|`
\* sequences and neither sentinel character.
C6_Original ==
    (pc = "decoded" /\ SentinelFree(q) /\ HasEscape(q)) => text = q

\* C6 as amended: for s free of the sentinel characters, decode(encode(s)) is
\* s with the backslash of every `\&` and `\|` removed, so it equals s exactly
\* when s holds no such sequence.
C6_RoundTrip ==
    (pc = "decoded" /\ SentinelFree(q)) =>
        /\ text = Unescape(q)
        /\ (text = q) <=> ~HasEscape(q)

\* A string with both escapes, which the round trip shortens by two.
C6_Witness ==
    /\ pc = "decoded" /\ SentinelFree(q)
    /\ \E i \in 2..Len(q) : q[i - 1] = BACKSLASH /\ q[i] = "&"
    /\ \E i \in 2..Len(q) : q[i - 1] = BACKSLASH /\ q[i] = "|"
    /\ Len(text) = Len(q) - 2

-----------------------------------------------------------------------------
(* Sort::parse alone, on one token of the sort string *)

MaxParts == 3

Location == <<"L","o","c","a","t","i","o","n">>
Len_ == <<"L","e","n">>
bogus == <<"b","o","g","u","s">>

SortParts ==
    { <<>>, location, Location, len, foo, asc, <<"A","s","c">>, desc,
      <<"D","e","s","c">>, bogus }

SortTokens == {Join(ps, <<":">>) : ps \in SeqUpTo(SortParts, MaxParts)}

\* The test entity, the test entity with a computed column, and the test
\* entity with a computed column whose name has an upper-case letter.
SortRegistries ==
    { from_entity(advisory),
      add_column(from_entity(advisory), len, "Integer"),
      add_column(from_entity(advisory), Len_, "Integer") }

InitSort ==
    /\ columns \in SortRegistries
    /\ q = <<>>
    /\ sort \in SortTokens
    /\ pc = "start"
    /\ filter = NoResult
    /\ cond = NoCondition
    /\ sorted = NoResult
    /\ select = EmptySelect
    /\ outcome = NoOutcome
    /\ text = <<>>
    /\ now = Today
    /\ runs = <<>>
    /\ RE = Unset
    /\ calls = NoCalls
    /\ legacy = NoLegacy

\* Sort::parse(sort, &columns)
SortParse ==
    /\ pc = "start"
    /\ sorted' = Sort_parse(sort, columns)
    /\ pc' = "sorted"
    /\ UNCHANGED <<columns, q, sort, filter, cond, select, outcome, text, now,
                   runs, RE, calls, legacy>>

NextSort == SortParse

SpecSort == InitSort /\ [][NextSort]_vars

\* The names of the registry and the tokens that name one, bare or with a
\* direction.
ColumnNames == {columns[i].ref.name : i \in 1..Len(columns)}

ValidSortTokens ==
    UNION {{n, n \o <<":">> \o asc, n \o <<":">> \o desc} : n \in ColumnNames}

EndsWith(s, p) == Len(s) >= Len(p) /\ SubSeq(s, Len(s) - Len(p) + 1, Len(s)) = p

\* The first registry entry of that name.
FirstNamed(n) ==
    columns[CHOOSE i \in 1..Len(columns) :
                /\ columns[i].ref.name = n
                /\ \A j \in 1..(i - 1) : columns[j].ref.name # n]

\* C7: Sort::parse succeeds exactly when the lower-cased token is f, f:asc or
\* f:desc for a name f of the registry; the key is then that column,
\* Descending exactly when the token ends in :desc, so letter case changes
\* nothing.  Every other token fails with SearchSyntax: more than one colon,
\* an unknown or empty direction, an empty or unknown field, the empty token.
C7_SortParse ==
    pc = "sorted" =>
        LET l == to_lowercase(sort)
            colons == Cardinality({i \in 1..Len(l) : l[i] = ":"})
            first == CHOOSE i \in 1..Len(l) :
                         l[i] = ":" /\ \A j \in 1..(i - 1) : l[j] # ":"
            f == IF colons = 0 THEN l ELSE SubSeq(l, 1, first - 1)
        IN  /\ sorted.ok <=> l \in ValidSortTokens
            /\ sorted.ok =>
                   /\ sorted.val.field = FirstNamed(f).ref
                   /\ (sorted.val.order = "Desc") <=> EndsWith(l, <<":">> \o desc)
                   /\ sorted.val.order \in {"Asc", "Desc"}
            /\ ~sorted.ok =>
                   sorted.err.msg \in {"Invalid sort",
                                       "Invalid field name for sort"}
            /\ (colons > 1 \/ l = <<>> \/ f = <<>>) => ~sorted.ok
            /\ (colons = 1 /\ ~EndsWith(l, <<":">> \o asc)
                           /\ ~EndsWith(l, <<":">> \o desc)) => ~sorted.ok

\* Location:Desc resolves to the column location, Descending.
C7_Witness ==
    /\ pc = "sorted"
    /\ sort = Location \o <<":", "D","e","s","c">>
    /\ sorted.ok
    /\ sorted.val.order = "Desc"
    /\ sorted.val.field = TableColumn("advisory", location)

-----------------------------------------------------------------------------
(* Filtering::filtering_with, and the ordering its caller adds afterwards *)

MaxSorts == 3

SortSamples ==
    { <<>>, location, title \o <<":">> \o desc, Location \o <<":">> \o asc,
      id \o <<":">> \o <<"D","E","S","C">>, foo, location \o <<":">> \o bogus }

SortStrings == {Join(ts, <<",">>) : ts \in SeqUpTo(SortSamples, MaxSorts)}

FilterSamples ==
    { <<>>, foo,
      foo \o <<"&">> \o published \o <<">">>
          \o <<"2","0","2","4","-","0","4","-","2","0">>,
      location \o <<"!","=","a","|","b">>,
      id \o <<"=","x">>,
      foo \o <<"=","b","a","r">>,
      foo \o <<"&">> \o foo \o <<"=","b","a","r">>,
      id \o <<"=","x","&">> \o foo \o <<"=","b","a","r">>,
      foo \o <<"=","b","a","r","&">> \o id \o <<"=","x">>,
      id \o <<"=","1","|","x","|","y">>,
      len \o <<"~","4","2">>,
      published \o <<"!","~">> \o <<"2","0","2","3","-","1","1","-","0","3">> }

\* The statement handed in: a bare find(), or one its caller has filtered.
Selects ==
    { EmptySelect,
      select_filter(EmptySelect,
          Condition("All", <<[expr |-> "Binary",
                              col |-> TableColumn("advisory", id),
                              op |-> "Equal",
                              value |-> Value("Int", <<>>, 1)]>>)) }

InitQuery ==
    /\ columns \in {from_entity(advisory),
                    add_column(from_entity(advisory), len, "Integer")}
    /\ q \in FilterSamples
    /\ sort \in SortStrings
    /\ select \in Selects
    /\ pc = "start"
    /\ filter = NoResult
    /\ cond = NoCondition
    /\ sorted = NoResult
    /\ outcome = NoOutcome
    /\ text = <<>>
    /\ now = Today
    /\ runs = <<>>
    /\ RE = Unset
    /\ calls = NoCalls
    /\ legacy = NoLegacy

\* select.filtering_with(Query { q, sort }, columns)
FilteringWith ==
    /\ pc = "start"
    /\ outcome' = filtering_with(select, q, sort, columns, now)
    /\ pc' = "filtered"
    /\ UNCHANGED <<columns, q, sort, filter, cond, sorted, select, text, now,
                   runs, RE, calls, legacy>>

\* The caller's own .order_by_desc(Column::Id) on the statement it got back.
OrderByDesc ==
    /\ pc = "filtered"
    /\ outcome.outcome = "ok"
    /\ outcome' = [outcome EXCEPT
                       !.select = order_by(@, TableColumn("advisory", id), "Desc")]
    /\ pc' = "ordered"
    /\ UNCHANGED <<columns, q, sort, filter, cond, sorted, select, text, now,
                   runs, RE, calls, legacy>>

NextQuery == FilteringWith \/ OrderByDesc

SpecQuery == InitQuery /\ [][NextQuery]_vars

\* The tokens of the sort string, and the key each one names.
SortTokensOf(s) == IF s = <<>> THEN <<>> ELSE Split(s, ",")

ExpectedKey(tok) ==
    LET l == to_lowercase(tok)
        f == IF EndsWith(l, <<":">> \o asc) THEN SubSeq(l, 1, Len(l) - 4)
             ELSE IF EndsWith(l, <<":">> \o desc) THEN SubSeq(l, 1, Len(l) - 5)
             ELSE l
    IN  [field |-> FirstNamed(f).ref,
         order |-> IF EndsWith(l, <<":">> \o desc) THEN "Desc" ELSE "Asc"]

AllTokensParse(s) ==
    \A i \in 1..Len(SortTokensOf(s)) :
        to_lowercase(SortTokensOf(s)[i]) \in ValidSortTokens

\* C8: when the k tokens of the sort string all parse, the statement that
\* filtering_with returns has, after the ordering keys it came with, exactly
\* the k keys of the tokens in their left-to-right order, and an ordering the
\* caller adds afterwards comes after all of them.  With no filter to compile
\* such a call always returns a statement.
C8_SortOrder ==
    /\ (pc \in {"filtered", "ordered"} /\ outcome.outcome = "ok") =>
           LET toks == SortTokensOf(sort)
               keys == [i \in 1..Len(toks) |-> ExpectedKey(toks[i])]
           IN  /\ AllTokensParse(sort)
               /\ outcome.select.order_by =
                      select.order_by \o keys \o
                      (IF pc = "ordered"
                       THEN <<[field |-> TableColumn("advisory", id),
                               order |-> "Desc"]>>
                       ELSE <<>>)
    /\ (pc = "filtered" /\ q = <<>> /\ AllTokensParse(sort)) =>
           outcome.outcome = "ok"

\* location,title:desc followed by order_by_desc(id).
C8_Witness ==
    /\ pc = "ordered"
    /\ q # <<>>
    /\ sort = location \o <<",">> \o title \o <<":">> \o desc
    /\ outcome.select.order_by =
           << [field |-> TableColumn("advisory", location), order |-> "Asc"],
              [field |-> TableColumn("advisory", title), order |-> "Desc"],
              [field |-> TableColumn("advisory", id), order |-> "Desc"] >>


-----------------------------------------------------------------------------
(* C9 *)

\* C9 as stated: filtering_with returns either a statement with the whole
\* filter and every sort key applied, or an error; nothing else.
C9_AllOrNothing ==
    pc = "filtered" =>
        \/ outcome.outcome = "err"
        \/ /\ outcome.outcome = "ok"
           /\ outcome.select.where =
                  (IF q = <<>> THEN select.where
                   ELSE Append(select.where,
                               into_condition(
                                   Filter_parse(q, columns, now).val).cond))
           /\ Len(outcome.select.order_by) =
                  Len(select.order_by) + Len(SortTokensOf(sort))

-----------------------------------------------------------------------------
(* The same query compiled at several moments, the clock moving on between   *)
(* the compilations                                                          *)

MaxRuns == 2
MaxDays == 2

RunSamples ==
    { foo, published \o <<"<">> \o yesterday,
      published \o <<">">> \o <<"2","0","2","3","-","1","1","-","0","3">>,
      id \o <<"=","x">>, location \o <<"=">> \o yesterday }

RunQueries ==
    ValueQueries \cup {a \o <<"&">> \o b : a \in RunSamples, b \in RunSamples}

InitRuns ==
    /\ columns \in Registries
    /\ q \in RunQueries
    /\ sort = <<>>
    /\ pc = "start"
    /\ filter = NoResult
    /\ cond = NoCondition
    /\ sorted = NoResult
    /\ select = EmptySelect
    /\ outcome = NoOutcome
    /\ text = <<>>
    /\ now = Today
    /\ runs = <<>>
    /\ RE = Unset
    /\ calls = NoCalls
    /\ legacy = NoLegacy

\* One compilation: Filter::parse(q, &columns), the clock read by the
\* relative-time parser being the clock of that moment.
Compile ==
    /\ Len(runs) < MaxRuns
    /\ runs' = Append(runs, [at |-> now,
                             result |-> Filter_parse(q, columns, now)])
    /\ UNCHANGED <<columns, q, sort, pc, filter, cond, sorted, select, outcome,
                   text, now, RE, calls, legacy>>

\* A day passes.
Tick ==
    /\ now < Today + MaxDays
    /\ now' = now + 1
    /\ UNCHANGED <<columns, q, sort, pc, filter, cond, sorted, select, outcome,
                   text, runs, RE, calls, legacy>>

NextRuns == Compile \/ Tick

SpecRuns == InitRuns /\ [][NextRuns]_vars

\* The phrases that name a moment relative to the clock.
RelativePhrases == {yesterday, three_days_ago, <<"n","o","w">>}

\* A clause of the query compares a Timestamp column with a relative phrase.
HasRelativeTime ==
    \E c \in Range(SplitUnescaped(q, "&")) :
        /\ captures(c).matched
        /\ for_field(columns, captures(c).field).found
        /\ for_field(columns, captures(c).field).col.type
               = "TimestampWithTimeZone"
        /\ \E a \in Range(SplitUnescaped(captures(c).value, "|")) :
               to_lowercase(Unescape(a)) \in RelativePhrases

\* C11 as stated: two compilations of the same query against the same
\* registry give identical results, whatever the time of each.
C11_Original ==
    \A i \in 1..Len(runs) : \A j \in 1..Len(runs) :
        runs[i].result = runs[j].result

\* C11 as amended: the result is a function of the query, the registry and
\* the local clock at the call.  Two compilations agree whenever they read the
\* same clock or no clause compares a Timestamp column with a relative phrase,
\* whatever ran before; and whether the result is an error never depends on
\* the clock.
C11_PureButForTheClock ==
    \A i \in 1..Len(runs) : \A j \in 1..Len(runs) :
        /\ (runs[i].at = runs[j].at \/ ~HasRelativeTime)
               => runs[i].result = runs[j].result
        /\ runs[i].result.ok = runs[j].result.ok
        /\ ~runs[i].result.ok => runs[i].result = runs[j].result

\* published<yesterday compiled on two different days: two different trees.
C11_Witness ==
    /\ Len(runs) = 2
    /\ runs[1].at # runs[2].at
    /\ q = published \o <<"<">> \o yesterday
    /\ runs[1].result.ok /\ runs[2].result.ok
    /\ runs[1].result # runs[2].result

-----------------------------------------------------------------------------
(* Coercion: one field comparison for each column type and each value shape  *)

MaxValueLen == 3

flag == <<"f","l","a","g">>
note == <<"n","o","t","e">>

\* The test entity with computed columns of the other types.
TypedColumns ==
    add_column(
        add_column(
            add_column(add_column(from_entity(advisory), len, "Integer"),
                       score, "Decimal"),
            flag, "Boolean"),
        note, "Text")

TypedFields == {id, location, published, len, score, flag, note}

I32_MAX_DIGITS == <<"2","1","4","7","4","8","3","6","4","7">>
I32_MIN_DIGITS == <<"2","1","4","7","4","8","3","6","4","8">>

IntegerTexts ==
    { <<"0">>, <<"4","2">>, <<"+","4","2">>, <<"0","0","7">>, <<"-","0">>,
      I32_MAX_DIGITS, I32_MIN_DIGITS, <<"-">> \o I32_MIN_DIGITS,
      <<"-">> \o I32_MAX_DIGITS \o <<"0">>, <<"+">> \o I32_MAX_DIGITS,
      <<"-","2","1","4","7","4","8","3","6","4","9">>,
      <<"0","0">> \o I32_MAX_DIGITS, <<"0","0">> \o I32_MIN_DIGITS,
      <<"9","9","9","9","9","9","9","9","9","9","9">>,
      <<"4"," ","2">>, <<" ","4","2">>, <<"4","2"," ">>, <<"4","x">>,
      <<"0","x","1","F">>, <<"1","e","3">>, <<"4","2",".","0">> }

DecimalTexts ==
    { <<"1",".","5">>, <<".","5">>, <<"5",".">>, <<".">>, <<"i","n","f">>,
      <<"N","a","N">>, <<"-","1",".","5","e","-","3">>, <<"1",".","2",".","3">> }

TimeTexts ==
    { <<"2","0","2","3","-","1","1","-","0","3">>,
      <<"2","0","2","3","-","0","2","-","3","0">>,
      <<"2","0","2","3","-","1","1","-","0","3","T","2","3",":","2","0",":",
        "5","0",".","5","2","Z">>,
      <<"2","0","2","3","-","1","1","-","0","3","T","2","3",":","2","0",":",
        "5","1","-","0","4",":","0","0">>,
      <<"2","0","2","2","-","1","1","-","0","7"," ","1","3",":","2","5",":",
        "3","0">>,
      yesterday, <<"Y","e","s","t","e","r","d","a","y">>, three_days_ago,
      <<"n","o","w">>, <<"l","a","s","t"," ","y","e","a","r","i","s","h">> }

StringTexts ==
    { foo, <<"f","_","o","%","o">>, <<BACKSLASH, "&", BACKSLASH, "|">>,
      <<"a"," ","b">> }

ShortTexts == SeqUpTo({"1", "9", "-", "+", "a"}, MaxValueLen)

CoerceValues ==
    IntegerTexts \cup DecimalTexts \cup TimeTexts \cup StringTexts \cup ShortTexts

\* Lists of alternatives, a good one and a bad one in either order.
CoerceLists ==
    {a \o <<"|">> \o b :
        a \in {<<"4","2">>, <<"x">>, I32_MIN_DIGITS},
        b \in {<<"1","3">>, <<"y">>, <<"2","0","2","3","-","1","1","-","0","3">>}}

CoerceQueries ==
    {f \o op \o v : f \in TypedFields, op \in Range(RE_ops),
                    v \in CoerceValues \cup CoerceLists}

InitCoerce ==
    /\ columns = TypedColumns
    /\ q \in CoerceQueries
    /\ sort = <<>>
    /\ pc = "start"
    /\ filter = NoResult
    /\ cond = NoCondition
    /\ sorted = NoResult
    /\ select = EmptySelect
    /\ outcome = NoOutcome
    /\ text = <<>>
    /\ now = Today
    /\ runs = <<>>
    /\ RE = Unset
    /\ calls = NoCalls
    /\ legacy = NoLegacy

SpecCoerce == InitCoerce /\ [][Next]_vars

\* The input is one field comparison on a column of one of these types.
ComparisonOn(types) ==
    /\ Parsed /\ FieldComparison /\ SentinelFree(q)
    /\ Expected.col.type \in types

\* The texts of the alternatives, as the leaves are to carry them.
AltTexts == [i \in 1..Len(Expected.alts) |-> Unescape(Expected.alts[i])]

Leaf(i) == filter.val.operands.filters[i].operands.value

\* Decimal integers read off the text: an optional sign, one digit or more,
\* and the magnitude, leading zeros apart, within the limit of its sign.
Unsigned(s) == IF s # <<>> /\ Head(s) \in {"+", "-"} THEN Tail(s) ELSE s

RECURSIVE Significant(_)
Significant(ds) ==
    IF Len(ds) > 1 /\ Head(ds) = "0" THEN Significant(Tail(ds)) ELSE ds

\* a <= b for two digit strings of the same length.
DigitsLE(a, b) ==
    \/ a = b
    \/ \E i \in 1..Len(a) : /\ DigitVal(a[i]) < DigitVal(b[i])
                            /\ \A j \in 1..(i - 1) : a[j] = b[j]

IsI32Text(s) ==
    LET ds == Unsigned(s)
        sig == Significant(ds)
        limit == IF s # <<>> /\ Head(s) = "-" THEN I32_MIN_DIGITS ELSE I32_MAX_DIGITS
    IN  /\ ds # <<>>
        /\ AllDigits(ds)
        /\ Len(sig) < Len(limit) \/ (Len(sig) = Len(limit) /\ DigitsLE(sig, limit))

\* The integer a text in the range denotes, summed below zero so that the
\* smallest one is reached without leaving the range.
RECURSIVE NegativeOf(_)
NegativeOf(ds) ==
    IF ds = <<>> THEN 0
    ELSE NegativeOf(SubSeq(ds, 1, Len(ds) - 1)) * 10 - DigitVal(ds[Len(ds)])

I32Of(s) ==
    IF s # <<>> /\ Head(s) = "-" THEN NegativeOf(Unsigned(s))
    ELSE -NegativeOf(Unsigned(s))

-----------------------------------------------------------------------------
(* C12 *)

\* C12: on an Integer column the parse succeeds exactly when every
\* alternative is the decimal text of an integer in
\* [-2147483648, 2147483647]; each leaf then carries that integer.  Any other
\* text (out of range, not a number, empty) makes the whole parse fail with
\* the SearchSyntax conversion error: no wrapped value, no string leaf.
C12_IntegerCoercion ==
    ComparisonOn({"Integer"}) =>
        LET texts == AltTexts
            bad == {i \in 1..Len(texts) : ~IsI32Text(texts[i])}
        IN  /\ filter.ok <=> bad = {}
            /\ filter.ok =>
                   \A i \in 1..Len(texts) :
                       Leaf(i) = Value("Int", <<>>, I32Of(texts[i]))
            /\ ~filter.ok =>
                   /\ filter.err.msg = "conversion error"
                   /\ \E i \in bad : /\ \A j \in bad : i <= j
                                     /\ filter.err.arg = texts[i]

\* id=-2147483648 gives the smallest integer.
C12_Witness ==
    /\ ComparisonOn({"Integer"})
    /\ AltTexts = << <<"-">> \o I32_MIN_DIGITS >>
    /\ filter.ok
    /\ Leaf(1).t = "Int" /\ Leaf(1).n = -I32_MAX - 1

-----------------------------------------------------------------------------
(* C13 *)

\* C13: on a column that is not Integer, Decimal or TimestampWithTimeZone the
\* parse of a field comparison never fails and each leaf carries the text of
\* its alternative as a string, whatever the text looks like; on an Integer
\* column a parse that succeeds carries integers only.
C13_TypeByColumn ==
    /\ ComparisonOn({"String", "Text", "Boolean"}) =>
           /\ filter.ok
           /\ \A i \in 1..Len(AltTexts) : Leaf(i) = StringValue(AltTexts[i])
    /\ (ComparisonOn({"Integer"}) /\ filter.ok) =>
           \A i \in 1..Len(AltTexts) : Leaf(i).t = "Int"

\* location=42 gives the string 42.
C13_Witness ==
    /\ ComparisonOn({"String"})
    /\ captures(q).field = location
    /\ AltTexts = << <<"4","2">> >>
    /\ filter.ok
    /\ Leaf(1) = StringValue(<<"4","2">>)

-----------------------------------------------------------------------------
(* C14 *)

\* The parsers that accept a text, in the order RFC 3339, date, human time.
Accepting(v) ==
    {k \in 1..3 : CASE k = 1 -> parse_rfc3339(v)
                    [] k = 2 -> parse_date(v)
                    [] k = 3 -> from_human_time(v, now).ok}

\* C14: on a TimestampWithTimeZone column the parse of a field comparison
\* never fails; each leaf carries the result of the first parser, in the order
\* RFC 3339, YYYY-MM-DD, human time, that accepts the text, and the text
\* itself as a string when none does.
C14_TimestampCoercion ==
    ComparisonOn({"TimestampWithTimeZone"}) =>
        /\ filter.ok
        /\ \A i \in 1..Len(AltTexts) :
               LET v == AltTexts[i]
                   first == CHOOSE k \in Accepting(v) :
                                \A j \in Accepting(v) : k <= j
               IN  IF Accepting(v) = {} THEN Leaf(i) = StringValue(v)
                   ELSE CASE first = 1 ->
                               Leaf(i) = Value("TimeDateTimeWithTimeZone", v, 0)
                          [] first = 2 -> Leaf(i) = Value("TimeDate", v, 0)
                          [] first = 3 -> /\ Leaf(i) = from_human_time(v, now).val
                                          /\ Leaf(i).t \in {"ChronoDate",
                                                            "ChronoDateTime"}

\* published=2023-11-03, which the date parser and the human-time parser both
\* accept, carries the date parser's value.
C14_Witness ==
    /\ ComparisonOn({"TimestampWithTimeZone"})
    /\ AltTexts = << <<"2","0","2","3","-","1","1","-","0","3">> >>
    /\ Accepting(AltTexts[1]) = {2, 3}
    /\ filter.ok
    /\ Leaf(1).t = "TimeDate"

-----------------------------------------------------------------------------
(* Pattern leaves: one Like or NotLike clause on a textual column, and the   *)
(* rows its pattern matches                                                  *)

MaxLikeLen == 3
MaxRowLen == 3

LikeChars == {"%", "_", BACKSLASH, "a", "B"}

LikeQueries ==
    {location \o op \o v :
        op \in {<<"~">>, <<"!","~">>}, v \in SeqUpTo(LikeChars, MaxLikeLen)}

InitLike ==
    /\ columns = from_entity(advisory)
    /\ q \in LikeQueries
    /\ sort = <<>>
    /\ pc = "start"
    /\ filter = NoResult
    /\ cond = NoCondition
    /\ sorted = NoResult
    /\ select = EmptySelect
    /\ outcome = NoOutcome
    /\ text = <<>>
    /\ now = Today
    /\ runs = <<>>
    /\ RE = Unset
    /\ calls = NoCalls
    /\ legacy = NoLegacy

SpecLike == InitLike /\ [][Next]_vars

\* ILIKE with the backslash as its escape character: `%` matches any run of
\* characters, `_` any one character, a backslash makes the next character
\* literal, and letters match whatever their case.
RECURSIVE ilike(_, _)
ilike(s, p) ==
    IF p = <<>> THEN s = <<>>
    ELSE IF Head(p) = "%"
    THEN \E k \in 0..Len(s) : ilike(Drop(s, k), Tail(p))
    ELSE IF Head(p) = "_" THEN s # <<>> /\ ilike(Tail(s), Tail(p))
    ELSE IF Head(p) = BACKSLASH
    THEN /\ Len(p) >= 2 /\ s # <<>>
         /\ LowerOf(p[2]) = LowerOf(Head(s))
         /\ ilike(Tail(s), Drop(p, 2))
    ELSE /\ s # <<>>
         /\ LowerOf(Head(p)) = LowerOf(Head(s))
         /\ ilike(Tail(s), Tail(p))

Rows == SeqUpTo(LikeChars, MaxRowLen)

\* s holds v as a substring, letter case apart.
ContainsText(s, v) ==
    \E k \in 0..(Len(s) - Len(v)) :
        to_lowercase(SubSeq(s, k + 1, k + Len(v))) = to_lowercase(v)

\* The pattern of the one leaf of the lowered clause.
LeafPattern == cond.cond.conditions[1].conditions[1].value.s

-----------------------------------------------------------------------------
(* C15 *)

\* C15 as stated: for every value v the pattern built for a Like or NotLike
\* leaf matches exactly the strings that hold v as a literal substring,
\* whatever their case: no character of v acts as a wildcard or an escape.
C15_LiteralSubstring ==
    (pc = "lowered" /\ ~cond.panic) =>
        \A row \in Rows : ilike(row, LeafPattern) <=> ContainsText(row, captures(q).value)

\* The same for the values without a backslash.
C15_WithoutBackslash ==
    (pc = "lowered" /\ ~cond.panic /\ ~Contains(captures(q).value, BACKSLASH)) =>
        \A row \in Rows : ilike(row, LeafPattern) <=> ContainsText(row, captures(q).value)

-----------------------------------------------------------------------------
(* Lowering alone: trees built by hand, groups without children among them,  *)
(* and full-text queries against registries with and without textual columns *)

MaxChildren == 2

LeafFilters ==
    { Filter("Equal", Simple(TableColumn("advisory", id), Value("Int", <<>>, 1))),
      Filter("Like", Simple(TableColumn("advisory", location), StringValue(foo))),
      Filter("Like", Simple(TableColumn("advisory", title), StringValue(foo))) }

LeafGroups ==
    {Filter(op, Composite(fs)) :
        op \in {"And", "Or"}, fs \in SeqUpTo(LeafFilters, MaxChildren)}

\* The groups nested in another group: the two groups without children, a
\* group of one leaf and groups of two.
NestedGroups ==
    {g \in LeafGroups :
        \/ g.operands.filters = <<>>
        \/ g.operands.filters[1].operator = "Equal"}

Trees ==
    LeafGroups \cup
    {Filter(op, Composite(gs)) :
        op \in {"And", "Or"}, gs \in SeqUpTo(NestedGroups, MaxChildren) \ {<<>>}}

\* A registry without any textual column.
NoTextColumns == add_column(add_column(<<>>, len, "Integer"), score, "Decimal")

InitLower ==
    /\ sort = <<>>
    /\ cond = NoCondition
    /\ sorted = NoResult
    /\ select = EmptySelect
    /\ outcome = NoOutcome
    /\ text = <<>>
    /\ now = Today
    /\ runs = <<>>
    /\ RE = Unset
    /\ calls = NoCalls
    /\ legacy = NoLegacy
    /\ \/ /\ columns = from_entity(advisory)
          /\ q = <<>>
          /\ pc = "parsed"
          /\ filter \in {Ok(t) : t \in Trees}
       \/ /\ columns \in {NoTextColumns, from_entity(advisory)}
          /\ q \in {foo, foo \o <<"|">> \o foo}
          /\ pc = "start"
          /\ filter = NoResult

SpecLower == InitLower /\ [][Next]_vars

\* The rows, each one the set of the comparisons that are true of it.
Comparisons ==
    {SimpleCondition(l.operator, l.operands.col, l.operands.value)
         .cond.conditions[1] : l \in LeafFilters}

\* The predicate a Condition stands for: all() holds when each of its members
\* does, any() when one of them does.
RECURSIVE Holds(_, _)
Holds(c, row) ==
    IF "type" \notin DOMAIN c THEN c \in row
    ELSE IF c.type = "All"
    THEN \A i \in 1..Len(c.conditions) : Holds(c.conditions[i], row)
    ELSE \E i \in 1..Len(c.conditions) : Holds(c.conditions[i], row)

\* What the tree asks of a row, read off the tree.
RECURSIVE Asks(_, _)
Asks(f, row) ==
    IF f.operands.kind = "Simple"
    THEN [expr |-> IF f.operator = "Like" THEN "ILike" ELSE "Binary",
          col |-> f.operands.col,
          op |-> IF f.operator = "Like" THEN "" ELSE f.operator,
          value |-> IF f.operator = "Like"
                    THEN StringValue(<<"%">> \o f.operands.value.s \o <<"%">>)
                    ELSE f.operands.value] \in row
    ELSE IF f.operator = "And"
    THEN \A i \in 1..Len(f.operands.filters) : Asks(f.operands.filters[i], row)
    ELSE \E i \in 1..Len(f.operands.filters) : Asks(f.operands.filters[i], row)

-----------------------------------------------------------------------------
(* C16 *)

\* C16: the predicate of a lowered group holds of a row exactly when all
\* (And) or one (Or) of its children hold, so a group without children
\* lowers to always-true for And and always-false for Or; a full-text query
\* against a registry without a String or Text column lowers to the empty Or
\* group, which holds of no row.
C16_EmptyGroups ==
    (pc = "lowered" /\ ~cond.panic) =>
        /\ \A row \in SUBSET Comparisons :
               Holds(cond.cond, row) <=> Asks(filter.val, row)
        /\ filter.val.operands.filters = <<>> =>
               /\ cond.cond.conditions = <<>>
               /\ \A row \in SUBSET Comparisons :
                      Holds(cond.cond, row) <=> filter.val.operator = "And"
        /\ (q # <<>> /\ TextColumns = <<>>) =>
               /\ cond.cond = Condition("Any", <<>>)
               /\ \A row \in SUBSET Comparisons : ~Holds(cond.cond, row)

\* A full-text query lowered against the registry without textual columns.
C16_Witness ==
    /\ pc = "lowered" /\ ~cond.panic
    /\ q = foo
    /\ TextColumns = <<>>
    /\ filter.val = Filter("Or", Composite(<<>>))
    /\ cond.cond = Condition("Any", <<>>)

-----------------------------------------------------------------------------
(* C17 *)

\* C17: filtering_with with an empty q adds no condition to the statement,
\* with an empty sort it adds no ordering key, and with both empty it returns
\* the statement it was given and cannot fail; with an empty q it can fail on
\* the sort string only, and with an empty sort on the filter only.
C17_AbsentMeansNone ==
    pc = "filtered" =>
        /\ (q = <<>> /\ outcome.outcome = "ok") =>
               outcome.select.where = select.where
        /\ (sort = <<>> /\ outcome.outcome = "ok") =>
               outcome.select.order_by = select.order_by
        /\ (q = <<>> /\ sort = <<>>) =>
               outcome = [outcome |-> "ok", select |-> select]
        /\ (q = <<>> /\ outcome.outcome # "ok") =>
               /\ outcome.outcome = "err"
               /\ outcome.err.msg \in {"Invalid sort",
                                       "Invalid field name for sort"}
        /\ (sort = <<>> /\ outcome.outcome = "err") =>
               outcome.err = Filter_parse(q, columns, now).err

\* Both strings empty on a statement that already carries a condition.
C17_Witness ==
    /\ pc = "filtered"
    /\ q = <<>> /\ sort = <<>>
    /\ select.where # <<>>
    /\ outcome.outcome = "ok"
    /\ outcome.select = select

-----------------------------------------------------------------------------
(* The registry alone: from_entity, then add_column any number of times      *)

MaxAdded == 3

AddedNames == {id, location, len}
AddedTypes == {"Integer", "String"}

InitColumns ==
    /\ columns = from_entity(advisory)
    /\ q = <<>>
    /\ sort = <<>>
    /\ pc = "start"
    /\ filter = NoResult
    /\ cond = NoCondition
    /\ sorted = NoResult
    /\ select = EmptySelect
    /\ outcome = NoOutcome
    /\ text = <<>>
    /\ now = Today
    /\ runs = <<>>
    /\ RE = Unset
    /\ calls = NoCalls
    /\ legacy = NoLegacy

\* columns.add_column(name, def)
AddColumn ==
    /\ Len(columns) < Len(advisory) + MaxAdded
    /\ \E name \in AddedNames, def \in AddedTypes :
           columns' = add_column(columns, name, def)
    /\ UNCHANGED <<q, sort, pc, filter, cond, sorted, select, outcome, text, now,
                   runs, RE, calls, legacy>>

NextColumns == AddColumn

SpecColumns == InitColumns /\ [][NextColumns]_vars

\* The names looked up: those of the entity, those added, and one of neither.
LookedUp == ColumnNames \cup AddedNames \cup {foo}

\* The places of the entries of that name.
Places(cols, n) == {i \in 1..Len(cols) : cols[i].ref.name = n}

UniqueNames(cols) == \A n \in LookedUp : Cardinality(Places(cols, n)) <= 1

-----------------------------------------------------------------------------
(* C18 *)

\* C18: for_field(name) returns the earliest entry whose unqualified name is
\* name, and nothing when there is none; an add_column call leaves the answer
\* of for_field as it was for every name that resolved before the call, also
\* when the added column has that name with another type or qualifier.
C18_FirstMatchWins ==
    /\ [](\A n \in LookedUp :
             IF Places(columns, n) = {} THEN ~for_field(columns, n).found
             ELSE /\ for_field(columns, n).found
                  /\ \E i \in Places(columns, n) :
                         /\ \A j \in Places(columns, n) : i <= j
                         /\ for_field(columns, n).col = columns[i])
    /\ [][\A n \in LookedUp :
             for_field(columns, n).found =>
                 for_field(columns', n) = for_field(columns, n)]_vars

\* id added again as a String column: the lookup still gives the entity's.
C18_Witness ==
    /\ Cardinality(Places(columns, id)) = 2
    /\ columns[Len(columns)] = [ref |-> Column(id), type |-> "String"]
    /\ for_field(columns, id).col =
           [ref |-> TableColumn("advisory", id), type |-> "Integer"]

-----------------------------------------------------------------------------
(* C19 *)

\* C19 as stated: in every registry reachable by from_entity and add_column
\* no two entries have the same unqualified name.
C19_Original == UniqueNames(columns)

\* C19 as amended: the names from_entity gives are unique; add_column appends
\* its column whatever the names already there, so the names stay unique
\* exactly when the added name was not yet in the registry, and the entries
\* already there stay as they were, in their order.
C19_AppendOnly ==
    /\ [](/\ SubSeq(columns, 1, Len(advisory)) = from_entity(advisory)
          /\ UniqueNames(from_entity(advisory)))
    /\ [][/\ Len(columns') = Len(columns) + 1
          /\ SubSeq(columns', 1, Len(columns)) = columns
          /\ LET added == columns'[Len(columns')]
             IN  /\ added.ref.kind = "Column"
                 /\ UniqueNames(columns') <=>
                        /\ UniqueNames(columns)
                        /\ Places(columns, added.ref.name) = {}]_vars

\* location added twice more: three entries of that name.
C19_Witness ==
    /\ Cardinality(Places(columns, location)) = 3
    /\ ~UniqueNames(columns)

-----------------------------------------------------------------------------
(* Filter::parse called from several threads: the process-wide OnceLock that *)
(* holds the compiled pattern                                                *)

NThreads == 2

Threads == 1..NThreads

ThreadQueries ==
    { foo, location \o <<"=">> \o foo, id \o <<"=","x">>,
      foo \o <<"&">> \o id \o <<"=","1">> }

Idle == [pc |-> "idle", q |-> <<>>, seen |-> <<>>, result |-> NoResult]

\* The compiled pattern, as a matcher holds it.
Regex_new == RE_ops

\* Once::is_completed: the test a caller makes before it reads the cell.
IsCompleted_Started(cell) == cell.state # "Incomplete"

IsCompleted(cell) == cell.state = "Complete"

InitThreads ==
    /\ columns = from_entity(advisory)
    /\ q = <<>>
    /\ sort = <<>>
    /\ pc = "start"
    /\ filter = NoResult
    /\ cond = NoCondition
    /\ sorted = NoResult
    /\ select = EmptySelect
    /\ outcome = NoOutcome
    /\ text = <<>>
    /\ now = Today
    /\ runs = <<>>
    /\ RE = Unset
    /\ calls = [t \in Threads |-> Idle]
    /\ legacy = NoLegacy

\* A thread enters Filter::parse(s, columns).
Call(t) ==
    /\ calls[t].pc = "idle"
    /\ \E s \in ThreadQueries :
           calls' = [calls EXCEPT ![t] = [Idle EXCEPT !.pc = "get_or_init",
                                                      !.q = s]]
    /\ UNCHANGED <<columns, q, sort, pc, filter, cond, sorted, select, outcome,
                   text, now, runs, RE, legacy>>

\* LOCK.get_or_init on a cell that is complete: the reference to its value.
Get(t) ==
    /\ calls[t].pc = "get_or_init"
    /\ IsCompleted(RE)
    /\ calls' = [calls EXCEPT ![t].pc = "matching", ![t].seen = RE.value]
    /\ UNCHANGED <<columns, q, sort, pc, filter, cond, sorted, select, outcome,
                   text, now, runs, RE, legacy>>

\* LOCK.get_or_init on a cell nobody initialises yet: this thread is the one
\* to run the closure; the callers that come meanwhile wait.
Initialize(t) ==
    /\ calls[t].pc = "get_or_init"
    /\ RE.state = "Incomplete"
    /\ RE' = [RE EXCEPT !.state = "Running", !.inits = @ + 1]
    /\ calls' = [calls EXCEPT ![t].pc = "init"]
    /\ UNCHANGED <<columns, q, sort, pc, filter, cond, sorted, select, outcome,
                   text, now, runs, legacy>>

\* The closure: Regex::new(RE).unwrap(), written into the cell.
Store(t) ==
    /\ calls[t].pc = "init"
    /\ RE' = [RE EXCEPT !.value = Regex_new, !.writes = @ + 1]
    /\ calls' = [calls EXCEPT ![t].pc = "stored"]
    /\ UNCHANGED <<columns, q, sort, pc, filter, cond, sorted, select, outcome,
                   text, now, runs, legacy>>

\* The cell is marked complete and the initialising call gets its reference.
Publish(t) ==
    /\ calls[t].pc = "stored"
    /\ RE' = [RE EXCEPT !.state = "Complete"]
    /\ calls' = [calls EXCEPT ![t].pc = "matching", ![t].seen = RE.value]
    /\ UNCHANGED <<columns, q, sort, pc, filter, cond, sorted, select, outcome,
                   text, now, runs, legacy>>

\* The rest of Filter::parse, with the pattern the call holds.
Match(t) ==
    /\ calls[t].pc = "matching"
    /\ calls' = [calls EXCEPT
                     ![t].pc = "done",
                     ![t].result =
                         IF calls[t].seen = Regex_new
                         THEN Filter_parse(calls[t].q, columns, now)
                         ELSE SearchSyntax("no pattern", calls[t].seen)]
    /\ UNCHANGED <<columns, q, sort, pc, filter, cond, sorted, select, outcome,
                   text, now, runs, RE, legacy>>

\* The call returns; the thread may call again.
Return(t) ==
    /\ calls[t].pc = "done"
    /\ calls' = [calls EXCEPT ![t] = Idle]
    /\ UNCHANGED <<columns, q, sort, pc, filter, cond, sorted, select, outcome,
                   text, now, runs, RE, legacy>>

NextThreads ==
    \E t \in Threads :
        \/ Call(t)
        \/ Get(t)
        \/ Initialize(t)
        \/ Store(t)
        \/ Publish(t)
        \/ Match(t)
        \/ Return(t)

SpecThreads == InitThreads /\ [][NextThreads]_vars

-----------------------------------------------------------------------------
(* C20 *)

\* C20: under every interleaving of the calls, the closure that compiles the
\* pattern runs at most once and the cell is written at most once; once the
\* cell is complete it never changes; every call that matches holds the
\* compiled pattern, never an unset one; and the result of each call is the
\* result of that call run alone.
C20_InitialisedOnce ==
    /\ [](/\ RE.inits <= 1
          /\ RE.writes <= 1
          /\ RE.state = "Complete" => RE.value = Regex_new
          /\ \A t \in Threads :
                 /\ calls[t].pc \in {"matching", "done"} =>
                        /\ RE.state = "Complete"
                        /\ calls[t].seen = Regex_new
                 /\ calls[t].pc = "done" =>
                        calls[t].result =
                            Filter_parse(calls[t].q, columns, now))
    /\ [][RE.state = "Complete" => RE' = RE]_vars

\* Two calls that raced for the cell: one initialisation, both calls done,
\* each with the result of its own query.
C20_Witness ==
    /\ RE.inits = 1 /\ RE.state = "Complete"
    /\ \A t \in Threads : calls[t].pc = "done"
    /\ calls[1].q = foo /\ calls[1].result.ok
    /\ calls[2].q = id \o <<"=","x">> /\ ~calls[2].result.ok

-----------------------------------------------------------------------------
(* The same pipeline on clauses built from the operator characters, the      *)
(* delimiters, the escape character and the sentinels                        *)

\* Every string of up to MaxLen of these pieces; comparisons whose value is
\* empty, holds operator characters or holds an empty alternative; and the
\* conjunctions of up to MaxClauses of five clauses.
ClauseQueries ==
    {Flatten(ts) :
        ts \in SeqUpTo({ location, len, <<"1">>, <<"=">>, <<"!">>, <<"~">>,
                         <<"&">>, <<"|">>, <<BACKSLASH>>, <<BEL>>, <<BS>> },
                       MaxLen)}
    \cup {f \o op \o v :
             f \in FieldNames, op \in Range(RE_ops),
             v \in { <<>>, <<"a",">","b">>, <<"=","a">>, <<"~","a">>,
                     <<"a","|","|","b">> }}
    \cup {Join(cs, <<"&">>) :
             cs \in SeqUpTo({ <<>>, foo, <<"m",BACKSLASH,"&","m">>,
                              location \o <<"=","f",BACKSLASH,"&","o","o">>,
                              location \o <<"!","~">>
                                  \o <<"t","h","e","r","e","|","h","e","r","e">> },
                            MaxClauses)}

InitClauses ==
    /\ columns \in { from_entity(advisory),
                     add_column(from_entity(advisory), len, "Integer") }
    /\ q \in ClauseQueries
    /\ sort = <<>>
    /\ pc = "start"
    /\ filter = NoResult
    /\ cond = NoCondition
    /\ sorted = NoResult
    /\ select = EmptySelect
    /\ outcome = NoOutcome
    /\ text = <<>>
    /\ now = Today
    /\ runs = <<>>
    /\ RE = Unset
    /\ calls = NoCalls
    /\ legacy = NoLegacy

SpecClauses == InitClauses /\ [][Next]_vars

-----------------------------------------------------------------------------
(* C21 *)

\* Every Composite node of the tree is joined by And or Or and every Simple
\* node carries one of the eight comparison operators.
RECURSIVE OperatorsByKind(_)
OperatorsByKind(f) ==
    IF f.operands.kind = "Simple"
    THEN f.operator \in ComparisonOperators
    ELSE /\ f.operator \in {"And", "Or"}
         /\ \A i \in 1..Len(f.operands.filters) :
                OperatorsByKind(f.operands.filters[i])

\* C21: in every tree Filter::parse returns, a Composite node has operator
\* And or Or and a Simple node has one of the eight comparison operators, so
\* lowering a parsed tree never reaches an unreachable!() branch of
\* into_condition.
C21_OperatorsByKind ==
    /\ Parsed /\ filter.ok => OperatorsByKind(filter.val)
    /\ pc = "lowered" /\ cond.panic => cond.why # "unreachable"

\* A conjunction of a negated comparison with two alternatives and a
\* full-text clause has been parsed and lowered.
C21_Witness ==
    /\ pc = "lowered"
    /\ ~cond.panic
    /\ filter.val.operator = "And"
    /\ Len(filter.val.operands.filters) = 2
    /\ filter.val.operands.filters[1].operator = "And"
    /\ Len(filter.val.operands.filters[1].operands.filters) = 2
    /\ filter.val.operands.filters[1].operands.filters[1].operator = "NotLike"
    /\ filter.val.operands.filters[2].operator = "Or"
    /\ Len(filter.val.operands.filters[2].operands.filters) > 0

-----------------------------------------------------------------------------
(* C22 *)

\* The eight operator tokens and the operator each one stands for.
TokenTable ==
    { [tok |-> <<"=">>, op |-> "Equal"],
      [tok |-> <<"!","=">>, op |-> "NotEqual"],
      [tok |-> <<"~">>, op |-> "Like"],
      [tok |-> <<"!","~">>, op |-> "NotLike"],
      [tok |-> <<">","=">>, op |-> "GreaterThanOrEqual"],
      [tok |-> <<">">>, op |-> "GreaterThan"],
      [tok |-> <<"<","=">>, op |-> "LessThanOrEqual"],
      [tok |-> <<"<">>, op |-> "LessThan"] }

\* The tokens that stand directly after the leading word run of the input.
TokensAfterField ==
    {e \in TokenTable : StartsWith(Drop(q, WordRun(q)), e.tok)}

\* The longest of them.
LongestToken ==
    CHOOSE e \in TokensAfterField :
        \A d \in TokensAfterField : Len(d.tok) <= Len(e.tok)

\* The input is one comparison on a registered field, read off the raw text.
RawComparison ==
    /\ SentinelFree(q)
    /\ ~HasUnescaped(q, "&")
    /\ ~Contains(q, LF)
    /\ WordRun(q) > 0
    /\ TokensAfterField # {}
    /\ for_field(columns, SubSeq(q, 1, WordRun(q))).found

\* C22: the operator of a field comparison is the token directly after the
\* leading run of word characters, the two-character token winning over its
\* one-character prefix; each of the eight tokens gives its own operator and
\* everything after the token, operator characters included, is the value.
C22_OperatorToken ==
    Parsed /\ RawComparison =>
        LET col == for_field(columns, SubSeq(q, 1, WordRun(q))).col
            raw == Drop(Drop(q, WordRun(q)), Len(LongestToken.tok))
            alts == SplitUnescaped(raw, "|")
        IN  /\ col.type = "String" => filter.ok
            /\ filter.ok =>
                  /\ IsGroupOfLeaves(filter.val)
                  /\ Len(filter.val.operands.filters) = Len(alts)
                  /\ \A i \in 1..Len(alts) :
                        LET leaf == filter.val.operands.filters[i]
                        IN  /\ leaf.operator = LongestToken.op
                            /\ leaf.operands.col = col.ref
                            /\ col.type = "String" =>
                                  leaf.operands.value =
                                      StringValue(Unescape(alts[i]))

\* `location>=a>b` has been parsed: GreaterThanOrEqual with the value `a>b`.
C22_Witness ==
    /\ Parsed
    /\ q = location \o <<">","=","a",">","b">>
    /\ filter.ok
    /\ Len(filter.val.operands.filters) = 1
    /\ filter.val.operands.filters[1].operator = "GreaterThanOrEqual"
    /\ filter.val.operands.filters[1].operands.value =
           StringValue(<<"a",">","b">>)

-----------------------------------------------------------------------------
(* C23 *)

\* The clauses Filter::parse hands to the pattern.
Clauses == Split(encode(q), "&")

\* C23: Filter::parse never returns the "Invalid operator" error: whenever
\* the pattern matches a clause, the token it captured is one that
\* Operator::from_str accepts, and it gives a comparison operator, never Or
\* or And.
C23_OperatorAccepted ==
    Parsed =>
        LET clauses == Clauses
        IN  /\ ~filter.ok => filter.err.msg # "Invalid operator"
            /\ \A i \in 1..Len(clauses) :
                   LET caps == captures(clauses[i])
                       operator == Operator_from_str(caps.op)
                   IN  caps.matched =>
                           operator.ok /\ operator.val \in ComparisonOperators

\* A clause with the token `!~` has been matched and parsed.
C23_Witness ==
    /\ Parsed
    /\ filter.ok
    /\ Len(Clauses) = 2
    /\ captures(Clauses[1]).matched
    /\ captures(Clauses[1]).op = <<"!","~">>
    /\ filter.val.operands.filters[1].operands.filters[1].operator = "NotLike"

-----------------------------------------------------------------------------
(* One name, written in several letter cases, used as the field of a filter  *)
(* clause and as the field of a sort token                                   *)

\* The names as the caller writes them.
Spellings ==
    { location, Location, <<"L","O","C","A","T","I","O","N">>,
      len, Len_, <<"L","E","N">>, <<"l","E","n">>, <<"l","e","N">>,
      <<"L","E","n">>, <<"l","E","N">>, <<"L","e","N">>, foo }

\* The test entity; the test entity with a computed column whose name has an
\* upper-case letter; and the same with a computed column of the lower-case
\* name before it.
InitNames ==
    /\ columns \in
           { from_entity(advisory),
             add_column(from_entity(advisory), Len_, "Integer"),
             add_column(add_column(from_entity(advisory), len, "String"),
                        Len_, "Integer") }
    /\ text \in Spellings
    /\ \E op \in Range(RE_ops), v \in {foo, <<"1">>} : q = text \o op \o v
    /\ \E d \in {<<>>, <<":">> \o asc, <<":">> \o desc,
                 <<":","D","E","S","C">>, <<":">> \o bogus} : sort = text \o d
    /\ pc = "start"
    /\ filter = NoResult
    /\ cond = NoCondition
    /\ sorted = NoResult
    /\ select = EmptySelect
    /\ outcome = NoOutcome
    /\ now = Today
    /\ runs = <<>>
    /\ RE = Unset
    /\ calls = NoCalls
    /\ legacy = NoLegacy

\* Sort::parse(sort, &columns), called after Filter::parse has returned
ParseSort ==
    /\ pc = "parsed"
    /\ sorted' = Sort_parse(sort, columns)
    /\ pc' = "sorted"
    /\ UNCHANGED <<columns, q, sort, filter, cond, select, outcome, text, now,
                   runs, RE, calls, legacy>>

NextNames == Parse \/ ParseSort

SpecNames == InitNames /\ [][NextNames]_vars

\* The sort token is the name alone or the name with a direction, in any
\* letter case.
WellFormedToken ==
    to_lowercase(Drop(sort, Len(text)))
        \in {<<>>, <<":">> \o asc, <<":">> \o desc}

-----------------------------------------------------------------------------
(* C24 *)

\* C24: the field of a filter clause is looked up by an exact, case-sensitive
\* match on the unqualified column name: a name the registry does not hold in
\* that very spelling (`Location` for `location`) gives the SearchSyntax
\* error for an unknown filter field, while the sort token of the same
\* spelling resolves to the column of the lower-cased name.
C24_ExactFieldMatch ==
    /\ pc \in {"parsed", "sorted"} =>
          IF text \in ColumnNames
          THEN /\ ~filter.ok => filter.err.msg # "Invalid field name for filter"
               /\ filter.ok =>
                     \A i \in 1..Len(filter.val.operands.filters) :
                         filter.val.operands.filters[i].operands.col
                             = FirstNamed(text).ref
          ELSE filter = SearchSyntax("Invalid field name for filter", text)
    /\ pc = "sorted" /\ WellFormedToken /\ to_lowercase(text) \in ColumnNames =>
          /\ sorted.ok
          /\ sorted.val.field = FirstNamed(to_lowercase(text)).ref

\* On the test entity `Location=foo` has failed in the filter and the sort
\* token `Location` has resolved to the column location.
C24_Witness ==
    /\ pc = "sorted"
    /\ columns = from_entity(advisory)
    /\ q = Location \o <<"=">> \o foo
    /\ filter = SearchSyntax("Invalid field name for filter", Location)
    /\ sort = Location
    /\ sorted.ok
    /\ sorted.val.field = TableColumn("advisory", location)

-----------------------------------------------------------------------------
(* C29 *)

HasUpper(n) == \E i \in 1..Len(n) : n[i] \in Upper

\* The token names, in some letter case, a column whose name has an
\* upper-case letter.
NamesUpperColumn ==
    \E n \in ColumnNames : HasUpper(n) /\ to_lowercase(n) = to_lowercase(text)

\* C29 as stated: every well-formed sort token that names a column with an
\* upper-case letter in its name fails with the unknown-sort-field error.
C29_Original ==
    pc = "sorted" /\ WellFormedToken /\ NamesUpperColumn =>
        sorted = SearchSyntax("Invalid field name for sort", to_lowercase(text))

\* C29, amended: a column whose name has an upper-case letter is never the
\* key of a parsed sort token.  A well-formed token that names it, in any
\* letter case, fails with the unknown-sort-field error unless the registry
\* also holds a column of the lower-cased name, and then it resolves to that
\* other column.  Written exactly, the column can be used in a filter clause.
C29_NeverASortKey ==
    /\ pc = "sorted" /\ sorted.ok => ~HasUpper(sorted.val.field.name)
    /\ pc = "sorted" /\ WellFormedToken /\ NamesUpperColumn =>
          IF to_lowercase(text) \in ColumnNames
          THEN /\ sorted.ok
               /\ sorted.val.field = FirstNamed(to_lowercase(text)).ref
          ELSE sorted = SearchSyntax("Invalid field name for sort",
                                     to_lowercase(text))
    /\ pc \in {"parsed", "sorted"} /\ text \in ColumnNames /\ HasUpper(text) =>
          /\ ~filter.ok => filter.err.msg # "Invalid field name for filter"
          /\ filter.ok =>
                \A i \in 1..Len(filter.val.operands.filters) :
                    filter.val.operands.filters[i].operands.col
                        = FirstNamed(text).ref

\* With the columns `len` and `Len` in the registry, the clause `Len=1` has
\* compared the column `Len` and the sort token `Len:desc` has resolved to
\* the column `len`.
C29_Witness ==
    /\ pc = "sorted"
    /\ Len_ \in ColumnNames /\ len \in ColumnNames
    /\ q = Len_ \o <<"=","1">>
    /\ filter.ok
    /\ filter.val.operands.filters[1].operands.col = Column(Len_)
    /\ sort = Len_ \o <<":">> \o desc
    /\ sorted = Ok([field |-> Column(len), order |-> "Desc"])

-----------------------------------------------------------------------------
(* C25 *)

\* The number of nested activations of Filter::parse at its deepest: a call
\* that takes the conjunction branch calls itself on the pieces in turn,
\* until one of them fails.
RECURSIVE Filter_parse_depth(_, _, _)
Filter_parse_depth(s, cols, clock) ==
    LET encoded == encode(s)
    IN  IF Contains(encoded, "&")
        THEN LET pieces == Split(encoded, "&")
                 parsed == [i \in 1..Len(pieces) |->
                               Filter_parse(pieces[i], cols, clock).ok]
                 called == {i \in 1..Len(pieces) :
                               \A j \in 1..(i - 1) : parsed[j]}
                 depths == {Filter_parse_depth(pieces[i], cols, clock) :
                               i \in called}
             IN  1 + CHOOSE d \in depths : \A e \in depths : e <= d
        ELSE 1

\* C25: every call of Filter::parse returns, and it nests at most two deep:
\* a piece of the encoded input split on `&` holds no `&`, and encoding it
\* again leaves it unchanged, so the call made for a piece never takes the
\* conjunction branch.
C25_DepthAtMostTwo ==
    Parsed =>
        LET clauses == Clauses
        IN  /\ filter # NoResult
            /\ Filter_parse_depth(q, columns, now) <= 2
            /\ \A i \in 1..Len(clauses) :
                   /\ ~Contains(clauses[i], "&")
                   /\ encode(clauses[i]) = clauses[i]

\* A conjunction whose clause carries an escaped `&` has been parsed at depth
\* two.
C25_Witness ==
    /\ Parsed
    /\ filter.ok
    /\ Len(Clauses) = 3
    /\ \E i \in 1..3 : Contains(Clauses[i], BEL)
    /\ Filter_parse_depth(q, columns, now) = 2

-----------------------------------------------------------------------------
(* C26 *)

\* The first element of a sequence of results that is an error.
FirstErr(rs) ==
    rs[CHOOSE i \in 1..Len(rs) : ~rs[i].ok /\ \A j \in 1..(i - 1) : rs[j].ok]

AnyErr(rs) == \E i \in 1..Len(rs) : ~rs[i].ok

\* The fault of one clause, read off the raw text: an unknown field, or else
\* the leftmost alternative that does not convert; a full-text clause has
\* none.
ClauseFault(clause) ==
    LET caps == captures(clause)
        col == for_field(columns, caps.field)
        alts == SplitUnescaped(caps.value, "|")
        converted == [i \in 1..Len(alts) |->
                         envalue(Unescape(alts[i]), col.col.type, now)]
    IN  IF ~caps.matched THEN Ok(<<>>)
        ELSE IF ~col.found
        THEN SearchSyntax("Invalid field name for filter", caps.field)
        ELSE IF AnyErr(converted) THEN FirstErr(converted)
        ELSE Ok(<<>>)

\* The faults of the clauses of the filter and of the tokens of the sort.
FilterFaults ==
    LET clauses == SplitUnescaped(q, "&")
    IN  [i \in 1..Len(clauses) |-> ClauseFault(clauses[i])]

SortFaults ==
    [i \in 1..Len(SortTokensOf(sort)) |->
        Sort_parse(SortTokensOf(sort)[i], columns)]

\* C26: of several faults filtering_with reports the first in evaluation
\* order: a fault of the filter before any fault of the sort; in a
\* conjunction the fault of the leftmost failing clause; in a field
\* comparison the unknown field before any conversion, and else the leftmost
\* alternative that does not convert; among the sort tokens the leftmost
\* failing one.
C26_FirstFaultWins ==
    pc = "filtered" =>
        IF AnyErr(FilterFaults)
        THEN outcome = [outcome |-> "err", err |-> FirstErr(FilterFaults).err]
        ELSE IF outcome.outcome = "panic" THEN TRUE
        ELSE IF AnyErr(SortFaults)
        THEN outcome = [outcome |-> "err", err |-> FirstErr(SortFaults).err]
        ELSE outcome.outcome = "ok"

\* A conjunction whose first clause does not convert and whose second names
\* an unknown field, with two failing sort tokens: the conversion error of
\* the first clause is the one returned.
C26_Witness ==
    /\ pc = "filtered"
    /\ q = id \o <<"=","x","&">> \o foo \o <<"=","b","a","r">>
    /\ sort = foo \o <<",">> \o location \o <<":">> \o bogus
    /\ outcome = [outcome |-> "err",
                  err |-> envalue(<<"x">>, "Integer", now).err]

-----------------------------------------------------------------------------
(* C27 *)

\* The Like leaf of a full-text clause on the empty string, and what it
\* lowers to.
EmptyLike(col) == Filter("Like", Simple(col, StringValue(<<>>)))

EmptyLikeCondition(col) ==
    Condition("All", <<[expr |-> "ILike", col |-> col, op |-> "",
                        value |-> StringValue(<<"%","%">>)]>>)

\* The tree f keeps every piece of the clause, the empty ones included.
KeepsPieces(f, clause) ==
    LET caps == captures(clause)
        col == for_field(columns, caps.field).col
        alts == SplitUnescaped(IF caps.matched THEN caps.value ELSE clause, "|")
        fs == f.operands.filters
        n == Len(TextColumns)
    IN  /\ IsGroupOfLeaves(f)
        /\ IF caps.matched
           THEN /\ Len(fs) = Len(alts)
                /\ \A a \in 1..Len(alts) :
                       alts[a] = <<>> /\ col.type = "String" =>
                           fs[a].operands = Simple(col.ref, StringValue(<<>>))
           ELSE /\ f.operator = "Or"
                /\ Len(fs) = Len(alts) * n
                /\ \A a \in 1..Len(alts) :
                       alts[a] = <<>> =>
                           \A c \in 1..n :
                               fs[(a - 1) * n + c] = EmptyLike(TextColumns[c].ref)

\* C27: no piece is dropped.  A conjunction has one child for each piece
\* between unescaped `&`, a comparison one leaf for each piece between
\* unescaped `|` (`location=` gives one Equal leaf on the empty string,
\* `location=a||b` three leaves), and an empty clause is a full-text Or group
\* of Like leaves on the empty string, which lower to the pattern `%%`.
C27_EmptyPiecesKept ==
    LET clauses == SplitUnescaped(q, "&")
    IN  /\ Parsed /\ filter.ok =>
              IF Len(clauses) = 1 THEN KeepsPieces(filter.val, q)
              ELSE /\ filter.val.operator = "And"
                   /\ filter.val.operands.kind = "Composite"
                   /\ Len(filter.val.operands.filters) = Len(clauses)
                   /\ \A i \in 1..Len(clauses) :
                          KeepsPieces(filter.val.operands.filters[i], clauses[i])
        /\ Parsed /\ SentinelFree(q) /\ ~filter.ok =>
              \E i \in 1..Len(clauses) :
                  clauses[i] # <<>> /\ ~ClauseFault(clauses[i]).ok
        /\ pc = "lowered" /\ ~cond.panic /\ Len(clauses) > 1 =>
              \A i \in 1..Len(clauses) :
                  clauses[i] = <<>> =>
                      cond.cond.conditions[i] =
                          Condition("Any",
                              [c \in 1..Len(TextColumns) |->
                                  EmptyLikeCondition(TextColumns[c].ref)])

\* `foo&&foo` on the test entity: three children, the second a group of Like
\* leaves on the empty string, lowered to the pattern `%%`.
C27_Witness ==
    /\ pc = "lowered"
    /\ columns = from_entity(advisory)
    /\ q = foo \o <<"&","&">> \o foo
    /\ Len(filter.val.operands.filters) = 3
    /\ filter.val.operands.filters[2] =
           Filter("Or", Composite(<<EmptyLike(TableColumn("advisory", location)),
                                    EmptyLike(TableColumn("advisory", title))>>))
    /\ cond.cond.conditions[2].conditions[1].conditions[1].value =
           StringValue(<<"%","%">>)

-----------------------------------------------------------------------------
(* C28 *)

\* The values of the leaves of a tree.
RECURSIVE LeafValues(_)
LeafValues(f) ==
    IF f.operands.kind = "Simple" THEN {f.operands.value}
    ELSE UNION {LeafValues(f.operands.filters[i]) :
                   i \in 1..Len(f.operands.filters)}

\* C28: no leaf of a tree returned by Filter::parse carries a sentinel: the
\* text of every leaf value, in a field comparison and in a full-text clause
\* alike, is free of the characters 0x07 and 0x08, whatever the input.
C28_NoSentinelSurvives ==
    Parsed /\ filter.ok => \A v \in LeafValues(filter.val) : SentinelFree(v.s)

\* An input with a raw 0x07 and an escaped `|` has been parsed into leaves
\* on the text `&|`.
C28_Witness ==
    /\ Parsed
    /\ q = <<BEL, BACKSLASH, "|">>
    /\ filter.ok
    /\ LeafValues(filter.val) = {StringValue(<<"&","|">>)}

-----------------------------------------------------------------------------
(* The search module's compiler, generic over the entity's Column            *)
(* enumeration, next to the compiler over the Columns registry               *)

\* The alternatives of the op group of the search module's pattern, in the
\* pattern's order.
search_RE_ops ==
    << <<"=">>, <<"!","=">>, <<"~">>, <<">","=">>, <<">">>, <<"<","=">>,
       <<"<">> >>

\* Operator::from_str of the search module.
search_Operator_from_str(s) ==
    CASE s = <<"=">> -> Ok("Equal")
      [] s = <<"!","=">> -> Ok("NotEqual")
      [] s = <<"~">> -> Ok("Like")
      [] s = <<">">> -> Ok("GreaterThan")
      [] s = <<">","=">> -> Ok("GreaterThanOrEqual")
      [] s = <<"<">> -> Ok("LessThan")
      [] s = <<"<","=">> -> Ok("LessThanOrEqual")
      [] s = <<"|">> -> Ok("Or")
      [] s = <<"&">> -> Ok("And")
      [] OTHER -> SearchSyntax("Invalid operator", s)

\* Regex::captures for the search module's pattern.
search_captures(s) ==
    LET n == WordRun(s)
        rest == Drop(s, n)
        hits == {k \in 1..Len(search_RE_ops) :
                    StartsWith(rest, search_RE_ops[k])}
    IN  IF n = 0 \/ hits = {} THEN [matched |-> FALSE]
        ELSE LET k == CHOOSE k \in hits : \A j \in hits : k <= j
                 value == Drop(rest, Len(search_RE_ops[k]))
             IN  IF Contains(value, LF) THEN [matched |-> FALSE]
                 ELSE [matched |-> TRUE, field |-> SubSeq(s, 1, n),
                       op |-> search_RE_ops[k], value |-> value]

\* T::Column::from_str: the column of the entity with that name.
Column_from_str(entity, field) ==
    IF \E i \in 1..Len(entity) : entity[i].ref.name = field
    THEN Ok((CHOOSE c \in Range(entity) : c.ref.name = field).ref)
    ELSE SearchSyntax("Invalid field name for filter", field)

\* Filter::<T>::from_str of the search module; a leaf holds its column and
\* the decoded text.
RECURSIVE Filter_from_str(_, _)
Filter_from_str(s, entity) ==
    LET encoded == encode(s)
        caps == search_captures(encoded)
    IN  IF Contains(encoded, "&")
        THEN LET pieces == Split(encoded, "&")
                 parsed == Collect([i \in 1..Len(pieces) |->
                                       Filter_from_str(pieces[i], entity)])
             IN  IF parsed.ok THEN Ok(Filter("And", Composite(parsed.val)))
                 ELSE parsed
        ELSE IF caps.matched
        THEN LET col == Column_from_str(entity, caps.field)
                 operator == search_Operator_from_str(caps.op)
                 alts == Split(caps.value, "|")
             IN  IF ~col.ok THEN col
                 ELSE IF ~operator.ok THEN operator
                 ELSE Ok(Filter("Or", Composite(
                          [a \in 1..Len(alts) |->
                              Filter(operator.val,
                                     Simple(col.val, decode(alts[a])))])))
        ELSE LET alts == Split(encoded, "|")
                 textual == SelectSeq(entity,
                                LAMBDA c : c.type \in {"String", "Text"})
             IN  Ok(Filter("Or", Composite(Flatten(
                     [a \in 1..Len(alts) |->
                         [c \in 1..Len(textual) |->
                             Filter("Like", Simple(textual[c].ref,
                                                   decode(alts[a])))]]))))

\* Filter::<T>::into_condition of the search module: eq, ne, gt, gte, lt and
\* lte of ColumnTrait give the binary comparison, contains gives LIKE on the
\* pattern between two `%`.
RECURSIVE search_into_condition(_)
search_into_condition(f) ==
    IF f.operands.kind = "Simple"
    THEN IF f.operator \in {"Equal", "NotEqual", "GreaterThan",
                            "GreaterThanOrEqual", "LessThan", "LessThanOrEqual"}
         THEN Lowered(Condition("All",
                  <<[expr |-> "Binary", col |-> f.operands.col,
                     op |-> BinOper(f.operator),
                     value |-> StringValue(f.operands.value)]>>))
         ELSE IF f.operator = "Like"
         THEN Lowered(Condition("All",
                  <<[expr |-> "Like", col |-> f.operands.col, op |-> "",
                     value |-> StringValue(LikePattern(f.operands.value))]>>))
         ELSE Panic("unreachable")
    ELSE LET fs == f.operands.filters
             cs == [i \in 1..Len(fs) |-> search_into_condition(fs[i])]
         IN  IF f.operator \notin {"And", "Or"} THEN Panic("unreachable")
             ELSE IF \E i \in 1..Len(cs) : cs[i].panic
             THEN cs[CHOOSE i \in 1..Len(cs) :
                         cs[i].panic /\ \A j \in 1..(i - 1) : ~cs[j].panic]
             ELSE Lowered(Condition(IF f.operator = "And" THEN "All" ELSE "Any",
                                    [i \in 1..Len(cs) |-> cs[i].cond]))

\* One query handed to both compilers, for an entity whose columns are all
\* String or Text.
InitSearch ==
    /\ columns = from_entity(
           << [ref |-> TableColumn("advisory", location), type |-> "String"],
              [ref |-> TableColumn("advisory", title), type |-> "Text"] >>)
    /\ q \in Queries
    /\ sort = <<>>
    /\ pc = "start"
    /\ filter = NoResult
    /\ cond = NoCondition
    /\ sorted = NoResult
    /\ select = EmptySelect
    /\ outcome = NoOutcome
    /\ text = <<>>
    /\ now = Today
    /\ runs = <<>>
    /\ RE = Unset
    /\ calls = NoCalls
    /\ legacy = NoLegacy

\* Filter::<T>::from_str(q)
FromStr ==
    /\ legacy.pc = "start"
    /\ legacy' = [legacy EXCEPT !.pc = "parsed",
                                !.filter = Filter_from_str(q, columns)]
    /\ UNCHANGED <<columns, q, sort, pc, filter, cond, sorted, select, outcome,
                   text, now, runs, RE, calls>>

\* into_condition() on the tree of the search module
SearchIntoCondition ==
    /\ legacy.pc = "parsed"
    /\ legacy.filter.ok
    /\ legacy' = [legacy EXCEPT !.pc = "lowered",
                                !.cond = search_into_condition(legacy.filter.val)]
    /\ UNCHANGED <<columns, q, sort, pc, filter, cond, sorted, select, outcome,
                   text, now, runs, RE, calls>>

NextSearch == Parse \/ IntoCondition \/ FromStr \/ SearchIntoCondition

SpecSearch == InitSearch /\ [][NextSearch]_vars

-----------------------------------------------------------------------------
(* What a Condition selects: the rows hold a text in each column *)

\* The characters in the order of their code points.
CodePoints ==
    << BEL, BS, LF, "!", "%", "&", "-", ".", "0", "1", "2", "3", "4", "5",
       "6", "7", "8", "9", ":", "<", "=", ">", "A", "B", "C", "D", "E", "F",
       "G", "H", "I", "J", "K", "L", "M", "N", "O", "P", "Q", "R", "S", "T",
       "U", "V", "W", "X", "Y", "Z", BACKSLASH, "_", "a", "b", "c", "d", "e",
       "f", "g", "h", "i", "j", "k", "l", "m", "n", "o", "p", "q", "r", "s",
       "t", "u", "v", "w", "x", "y", "z", "|", "~" >>

CodePoint(c) == CHOOSE i \in 1..Len(CodePoints) : CodePoints[i] = c

\* s comes before t, character by character.
RECURSIVE Before(_, _)
Before(s, t) ==
    IF t = <<>> THEN FALSE
    ELSE IF s = <<>> THEN TRUE
    ELSE IF Head(s) = Head(t) THEN Before(Tail(s), Tail(t))
    ELSE CodePoint(Head(s)) < CodePoint(Head(t))

\* LIKE with the backslash as its escape character: as ILIKE, but a letter
\* matches in its own case only.
RECURSIVE like(_, _)
like(s, p) ==
    IF p = <<>> THEN s = <<>>
    ELSE IF Head(p) = "%"
    THEN \E k \in 0..Len(s) : like(Drop(s, k), Tail(p))
    ELSE IF Head(p) = "_" THEN s # <<>> /\ like(Tail(s), Tail(p))
    ELSE IF Head(p) = BACKSLASH
    THEN Len(p) >= 2 /\ s # <<>> /\ p[2] = Head(s) /\ like(Tail(s), Drop(p, 2))
    ELSE s # <<>> /\ Head(p) = Head(s) /\ like(Tail(s), Tail(p))

\* The rows: a text in location and a text in title.
RowTexts == {<<>>, <<"a">>, <<"A">>, <<"b">>, <<"a","|","b">>, foo}

TextRows == [{location, title} -> RowTexts]

\* The Condition holds of the row.
RECURSIVE Satisfies(_, _)
Satisfies(c, row) ==
    IF "type" \in DOMAIN c
    THEN IF c.type = "All"
         THEN \A i \in 1..Len(c.conditions) : Satisfies(c.conditions[i], row)
         ELSE \E i \in 1..Len(c.conditions) : Satisfies(c.conditions[i], row)
    ELSE LET x == row[c.col.name]
             v == c.value.s
         IN  CASE c.expr = "ILike" -> ilike(x, v)
               [] c.expr = "NotILike" -> ~ilike(x, v)
               [] c.expr = "Like" -> like(x, v)
               [] c.op = "Equal" -> x = v
               [] c.op = "NotEqual" -> x # v
               [] c.op = "GreaterThan" -> Before(v, x)
               [] c.op = "GreaterThanOrEqual" -> ~Before(x, v)
               [] c.op = "SmallerThan" -> Before(x, v)
               [] c.op = "SmallerThanOrEqual" -> ~Before(v, x)

-----------------------------------------------------------------------------
(* C30 *)

\* The query holds the token `!~`.
UsesNotLike ==
    \E i \in 1..(Len(q) - 1) : q[i] = "!" /\ q[i + 1] = "~"

\* The leaves of a tree from left to right: column, operator and text.
RECURSIVE LeavesOf(_)
LeavesOf(f) ==
    IF f.operands.kind = "Simple"
    THEN <<[col |-> f.operands.col, operator |-> f.operator,
            text |-> f.operands.value.s]>>
    ELSE Flatten([i \in 1..Len(f.operands.filters) |->
                     LeavesOf(f.operands.filters[i])])

RECURSIVE search_LeavesOf(_)
search_LeavesOf(f) ==
    IF f.operands.kind = "Simple"
    THEN <<[col |-> f.operands.col, operator |-> f.operator,
            text |-> f.operands.value]>>
    ELSE Flatten([i \in 1..Len(f.operands.filters) |->
                     search_LeavesOf(f.operands.filters[i])])

\* Both compilers accept the same queries without `!~` and give the same
\* leaves for them.
C30_SameLeaves ==
    (~UsesNotLike /\ pc # "start" /\ legacy.pc # "start") =>
        /\ filter.ok <=> legacy.filter.ok
        /\ filter.ok /\ legacy.filter.ok =>
               LeavesOf(filter.val) = search_LeavesOf(legacy.filter.val)

\* C30 as stated: for an entity with only String and Text columns and a
\* query without `!~`, the search module's compiler and the registry's
\* compiler accept the same inputs, give the same leaves, and lower to
\* predicates that select the same rows.
C30_Equivalent ==
    /\ C30_SameLeaves
    /\ (~UsesNotLike /\ pc = "lowered" /\ legacy.pc = "lowered"
            /\ ~cond.panic /\ ~legacy.cond.panic) =>
           \A row \in TextRows :
               Satisfies(cond.cond, row) <=> Satisfies(legacy.cond.cond, row)

=============================================================================
